---- MODULE Spec2Model ----
(***************************************************************************)
(* Verification model of the BDC portfolio screener: the sector            *)
(* classifier, the holding aggregation of the home page, the summary       *)
(* averages, the watchlist analyze route with its JSON file store, the     *)
(* price refresh job and the ingestion of holdings.                        *)
(*                                                                         *)
(* Text is modelled as a sequence of one-character strings so that         *)
(* toLowerCase, trim and includes are computed character by character.     *)
(* A nullable value is <<>> (null / undefined) or <<v>> (the value v).     *)
(***************************************************************************)
EXTENDS Integers, Sequences, FiniteSets, TLC

VARIABLES
  rawIndustry,   \* classifier: the argument of classifySector (nullable text)
  classified,    \* classifier: "pending", or what classifySector returned
  bdcs,          \* table bdcs: sequence of entity rows
  holdings,      \* table holdings: sequence of holding rows
  bdcData,       \* what getBDCData last returned (sequence of composite records)
  pagePc,        \* home page: "idle", "rendered"
  avgs,          \* the three averages the home page displays
  store,         \* data/watchlist.json: sequence of watchlist items
  clock,         \* Date.now() in milliseconds
  req,           \* the analyze request being served
  calls,         \* external calls and store writes made by the current request
  del,           \* the DELETE requests served: how many, the last ticker and status
  env,           \* process.env: which credentials are configured
  cron,          \* the refresh job (GET /api/cron/refresh-prices) being run
  ingest,        \* the import script: the entity being ingested and its step
  bdcTable,      \* BDCTable: its data, sort key, direction, filter and sortedData
  detail,        \* the entity page: what getBDCDetails last returned
  dash,          \* WatchlistDashboard: its items, reanalyzing and position
  peer           \* a second analyze request, served at the same time as req

vars == <<rawIndustry, classified, bdcs, holdings, bdcData, pagePc, avgs,
          store, clock, req, calls, del, env, cron, ingest,
          bdcTable, detail, dash, peer>>

classifierVars == <<rawIndustry, classified>>
pageVars == <<bdcs, holdings, bdcData, pagePc, avgs>>
watchVars == <<store, clock, req, calls, del>>
cronVars == <<env, cron, ingest>>
viewVars == <<bdcTable, detail>>

\* ---------------------------------------------------------------------
\* Nullable values
\* ---------------------------------------------------------------------
NULL == <<>>
Some(v) == <<v>>
IsNull(x) == x = <<>>
Val(x) == x[1]

\* ---------------------------------------------------------------------
\* Sector taxonomy and classifier (lib/sector-classifier.ts)
\* ---------------------------------------------------------------------
SECTORS ==
  << "Software & Technology", "Healthcare", "Business Services",
     "Industrials", "Consumer", "Financial Services", "Media & Telecom",
     "Energy", "Real Estate", "Other" >>

SECTOR_KEYWORDS ==
  <<
  [sector |-> "Software & Technology", keywords |-> <<
        <<"s","o","f","t","w","a","r","e">>,
        <<"s","a","a","s">>,
        <<"t","e","c","h","n","o","l","o","g","y">>,
        <<"t","e","c","h">>,
        <<"i","t"," ","s","e","r","v","i","c","e","s">>,
        <<"d","a","t","a">>,
        <<"c","l","o","u","d">>,
        <<"c","y","b","e","r">>,
        <<"d","i","g","i","t","a","l">>,
        <<"i","n","t","e","r","n","e","t">>,
        <<"c","o","m","p","u","t","e","r">>,
        <<"e","l","e","c","t","r","o","n","i","c","s">>,
        <<"s","e","m","i","c","o","n","d","u","c","t","o","r">>,
        <<"a","p","p","l","i","c","a","t","i","o","n">>,
        <<"p","l","a","t","f","o","r","m">>,
        <<"a","n","a","l","y","t","i","c","s">>
     >>],
  [sector |-> "Healthcare", keywords |-> <<
        <<"h","e","a","l","t","h">>,
        <<"m","e","d","i","c","a","l">>,
        <<"p","h","a","r","m","a">>,
        <<"b","i","o","t","e","c","h">>,
        <<"h","o","s","p","i","t","a","l">>,
        <<"c","l","i","n","i","c","a","l">>,
        <<"d","e","n","t","a","l">>,
        <<"p","h","y","s","i","c","i","a","n">>,
        <<"d","r","u","g">>,
        <<"t","h","e","r","a","p","e","u","t","i","c">>,
        <<"d","i","a","g","n","o","s","t","i","c">>,
        <<"l","i","f","e"," ","s","c","i","e","n","c","e">>,
        <<"v","e","t","e","r","i","n","a","r","y">>,
        <<"h","e","a","l","t","h","c","a","r","e">>
     >>],
  [sector |-> "Business Services", keywords |-> <<
        <<"b","u","s","i","n","e","s","s"," ","s","e","r","v","i","c","e","s">>,
        <<"p","r","o","f","e","s","s","i","o","n","a","l"," ","s","e","r","v","i","c","e","s">>,
        <<"s","t","a","f","f","i","n","g">>,
        <<"c","o","n","s","u","l","t","i","n","g">>,
        <<"o","u","t","s","o","u","r","c","i","n","g">>,
        <<"h","u","m","a","n"," ","r","e","s","o","u","r","c","e","s">>,
        <<"h","r"," ","s","e","r","v","i","c","e","s">>,
        <<"m","a","r","k","e","t","i","n","g"," ","s","e","r","v","i","c","e","s">>,
        <<"a","d","v","e","r","t","i","s","i","n","g">>,
        <<"c","o","m","m","e","r","c","i","a","l"," ","s","e","r","v","i","c","e","s">>
     >>],
  [sector |-> "Industrials", keywords |-> <<
        <<"i","n","d","u","s","t","r","i","a","l">>,
        <<"m","a","n","u","f","a","c","t","u","r","i","n","g">>,
        <<"a","e","r","o","s","p","a","c","e">>,
        <<"d","e","f","e","n","s","e">>,
        <<"m","a","c","h","i","n","e","r","y">>,
        <<"c","o","n","s","t","r","u","c","t","i","o","n">>,
        <<"e","n","g","i","n","e","e","r","i","n","g">>,
        <<"t","r","a","n","s","p","o","r","t","a","t","i","o","n">>,
        <<"l","o","g","i","s","t","i","c","s">>,
        <<"d","i","s","t","r","i","b","u","t","i","o","n">>,
        <<"b","u","i","l","d","i","n","g"," ","p","r","o","d","u","c","t","s">>,
        <<"e","q","u","i","p","m","e","n","t">>
     >>],
  [sector |-> "Consumer", keywords |-> <<
        <<"c","o","n","s","u","m","e","r">>,
        <<"r","e","t","a","i","l">>,
        <<"r","e","s","t","a","u","r","a","n","t">>,
        <<"f","o","o","d">>,
        <<"b","e","v","e","r","a","g","e">>,
        <<"a","p","p","a","r","e","l">>,
        <<"l","e","i","s","u","r","e">>,
        <<"e","n","t","e","r","t","a","i","n","m","e","n","t">>,
        <<"g","a","m","i","n","g">>,
        <<"h","o","t","e","l">>,
        <<"h","o","s","p","i","t","a","l","i","t","y">>,
        <<"e","-","c","o","m","m","e","r","c","e">>,
        <<"e","d","u","c","a","t","i","o","n">>,
        <<"p","e","r","s","o","n","a","l"," ","s","e","r","v","i","c","e","s">>
     >>],
  [sector |-> "Financial Services", keywords |-> <<
        <<"f","i","n","a","n","c","i","a","l">>,
        <<"i","n","s","u","r","a","n","c","e">>,
        <<"b","a","n","k","i","n","g">>,
        <<"a","s","s","e","t"," ","m","a","n","a","g","e","m","e","n","t">>,
        <<"l","e","n","d","i","n","g">>,
        <<"c","a","p","i","t","a","l"," ","m","a","r","k","e","t","s">>,
        <<"i","n","v","e","s","t","m","e","n","t">>,
        <<"f","i","n","t","e","c","h">>
     >>],
  [sector |-> "Media & Telecom", keywords |-> <<
        <<"m","e","d","i","a">>,
        <<"t","e","l","e","c","o","m">>,
        <<"t","e","l","e","c","o","m","m","u","n","i","c","a","t","i","o","n","s">>,
        <<"b","r","o","a","d","c","a","s","t","i","n","g">>,
        <<"p","u","b","l","i","s","h","i","n","g">>,
        <<"c","o","m","m","u","n","i","c","a","t","i","o","n","s">>,
        <<"w","i","r","e","l","e","s","s">>,
        <<"c","a","b","l","e">>
     >>],
  [sector |-> "Energy", keywords |-> <<
        <<"e","n","e","r","g","y">>,
        <<"o","i","l">>,
        <<"g","a","s">>,
        <<"p","e","t","r","o","l","e","u","m">>,
        <<"p","i","p","e","l","i","n","e">>,
        <<"p","o","w","e","r">>,
        <<"u","t","i","l","i","t","i","e","s">>,
        <<"r","e","n","e","w","a","b","l","e">>,
        <<"s","o","l","a","r">>,
        <<"w","i","n","d">>
     >>],
  [sector |-> "Real Estate", keywords |-> <<
        <<"r","e","a","l"," ","e","s","t","a","t","e">>,
        <<"p","r","o","p","e","r","t","y">>,
        <<"r","e","i","t">>,
        <<"h","o","u","s","i","n","g">>
     >>],
  [sector |-> "Other", keywords |-> <<>>]
  >>

UPPER ==
  << "A","B","C","D","E","F","G","H","I","J","K","L","M",
     "N","O","P","Q","R","S","T","U","V","W","X","Y","Z" >>

LOWER ==
  << "a","b","c","d","e","f","g","h","i","j","k","l","m",
     "n","o","p","q","r","s","t","u","v","w","x","y","z" >>

WHITESPACE == {" ", "\t", "\n"}

\* String.prototype.toLowerCase
toLowerCase(s) ==
  [i \in 1..Len(s) |->
     IF \E u \in 1..Len(UPPER) : UPPER[u] = s[i]
       THEN LOWER[CHOOSE u \in 1..Len(UPPER) : UPPER[u] = s[i]]
       ELSE s[i]]

RECURSIVE trimStart(_)
trimStart(s) ==
  IF s # <<>> /\ Head(s) \in WHITESPACE THEN trimStart(Tail(s)) ELSE s

RECURSIVE trimEnd(_)
trimEnd(s) ==
  IF s # <<>> /\ s[Len(s)] \in WHITESPACE
    THEN trimEnd(SubSeq(s, 1, Len(s) - 1))
    ELSE s

\* String.prototype.trim
trim(s) == trimEnd(trimStart(s))

\* String.prototype.includes
includes(s, keyword) ==
  \E i \in 1..(Len(s) - Len(keyword) + 1) :
     SubSeq(s, i, i + Len(keyword) - 1) = keyword

\* some keyword of entry k of SECTOR_KEYWORDS is a substring of industry
matchesEntry(industry, k) ==
  \E j \in 1..Len(SECTOR_KEYWORDS[k].keywords) :
     includes(industry, SECTOR_KEYWORDS[k].keywords[j])

\* Mutant of scanSectors: the last matching entry wins instead of the first.
RECURSIVE scanSectorsLastWins(_, _)
scanSectorsLastWins(industry, k) ==
  IF k > Len(SECTOR_KEYWORDS) THEN "Other"
  ELSE LET rest == scanSectorsLastWins(industry, k + 1) IN
       IF rest # "Other" THEN rest
       ELSE IF SECTOR_KEYWORDS[k].sector # "Other" /\ matchesEntry(industry, k)
         THEN SECTOR_KEYWORDS[k].sector
         ELSE "Other"

\* the for-loop over Object.entries(SECTOR_KEYWORDS), from entry k on
RECURSIVE scanSectors(_, _)
scanSectors(industry, k) ==
  IF k > Len(SECTOR_KEYWORDS) THEN "Other"
  ELSE IF SECTOR_KEYWORDS[k].sector = "Other" THEN scanSectors(industry, k + 1)
  ELSE IF matchesEntry(industry, k) THEN SECTOR_KEYWORDS[k].sector
  ELSE scanSectors(industry, k + 1)

\* Mutant of classifySector: the guard `if (!rawIndustry)` is missing, so a
\* null argument reaches rawIndustry.toLowerCase() and raises a TypeError.
classifySectorNoGuard(raw) ==
  IF IsNull(raw) THEN "TypeError"
  ELSE scanSectors(trim(toLowerCase(Val(raw))), 1)

\* classifySector(rawIndustry): the result, a sector name
classifySector(raw) ==
  IF IsNull(raw) \/ Val(raw) = <<>> THEN "Other"
  ELSE scanSectors(trim(toLowerCase(Val(raw))), 1)

\* ---------------------------------------------------------------------
\* The import script's own classifier (scripts/import-sec-data.ts)
\* ---------------------------------------------------------------------
SCRIPT_SECTOR_KEYWORDS ==
  <<
  [sector |-> "Software & Technology", keywords |-> <<
        <<"s","o","f","t","w","a","r","e">>,
        <<"s","a","a","s">>,
        <<"t","e","c","h","n","o","l","o","g","y">>,
        <<"t","e","c","h">>,
        <<"i","t"," ","s","e","r","v","i","c","e","s">>,
        <<"d","a","t","a">>,
        <<"c","l","o","u","d">>,
        <<"c","y","b","e","r">>,
        <<"d","i","g","i","t","a","l">>,
        <<"i","n","t","e","r","n","e","t">>,
        <<"c","o","m","p","u","t","e","r">>,
        <<"e","l","e","c","t","r","o","n","i","c","s">>,
        <<"s","e","m","i","c","o","n","d","u","c","t","o","r">>,
        <<"a","p","p","l","i","c","a","t","i","o","n">>,
        <<"p","l","a","t","f","o","r","m">>,
        <<"a","n","a","l","y","t","i","c","s">>,
        <<"i","n","f","o","r","m","a","t","i","o","n"," ","t","e","c","h","n","o","l","o","g","y">> >>],
  [sector |-> "Healthcare", keywords |-> <<
        <<"h","e","a","l","t","h">>,
        <<"m","e","d","i","c","a","l">>,
        <<"p","h","a","r","m","a">>,
        <<"b","i","o","t","e","c","h">>,
        <<"h","o","s","p","i","t","a","l">>,
        <<"c","l","i","n","i","c","a","l">>,
        <<"d","e","n","t","a","l">>,
        <<"p","h","y","s","i","c","i","a","n">>,
        <<"d","r","u","g">>,
        <<"t","h","e","r","a","p","e","u","t","i","c">>,
        <<"d","i","a","g","n","o","s","t","i","c">>,
        <<"l","i","f","e"," ","s","c","i","e","n","c","e">>,
        <<"v","e","t","e","r","i","n","a","r","y">>,
        <<"h","e","a","l","t","h","c","a","r","e">>,
        <<"l","i","f","e"," ","s","c","i","e","n","c","e","s">> >>],
  [sector |-> "Business Services", keywords |-> <<
        <<"b","u","s","i","n","e","s","s"," ","s","e","r","v","i","c","e","s">>,
        <<"p","r","o","f","e","s","s","i","o","n","a","l"," ","s","e","r","v","i","c","e","s">>,
        <<"s","t","a","f","f","i","n","g">>,
        <<"c","o","n","s","u","l","t","i","n","g">>,
        <<"o","u","t","s","o","u","r","c","i","n","g">>,
        <<"h","u","m","a","n"," ","r","e","s","o","u","r","c","e","s">>,
        <<"h","r"," ","s","e","r","v","i","c","e","s">>,
        <<"m","a","r","k","e","t","i","n","g"," ","s","e","r","v","i","c","e","s">>,
        <<"a","d","v","e","r","t","i","s","i","n","g">>,
        <<"c","o","m","m","e","r","c","i","a","l"," ","s","e","r","v","i","c","e","s">>,
        <<"d","i","v","e","r","s","i","f","i","e","d"," ","s","e","r","v","i","c","e","s">> >>],
  [sector |-> "Industrials", keywords |-> <<
        <<"i","n","d","u","s","t","r","i","a","l">>,
        <<"m","a","n","u","f","a","c","t","u","r","i","n","g">>,
        <<"a","e","r","o","s","p","a","c","e">>,
        <<"d","e","f","e","n","s","e">>,
        <<"m","a","c","h","i","n","e","r","y">>,
        <<"c","o","n","s","t","r","u","c","t","i","o","n">>,
        <<"e","n","g","i","n","e","e","r","i","n","g">>,
        <<"t","r","a","n","s","p","o","r","t","a","t","i","o","n">>,
        <<"l","o","g","i","s","t","i","c","s">>,
        <<"d","i","s","t","r","i","b","u","t","i","o","n">>,
        <<"b","u","i","l","d","i","n","g"," ","p","r","o","d","u","c","t","s">>,
        <<"e","q","u","i","p","m","e","n","t">>,
        <<"c","a","p","i","t","a","l"," ","g","o","o","d","s">> >>],
  [sector |-> "Consumer", keywords |-> <<
        <<"c","o","n","s","u","m","e","r">>,
        <<"r","e","t","a","i","l">>,
        <<"r","e","s","t","a","u","r","a","n","t">>,
        <<"f","o","o","d">>,
        <<"b","e","v","e","r","a","g","e">>,
        <<"a","p","p","a","r","e","l">>,
        <<"l","e","i","s","u","r","e">>,
        <<"e","n","t","e","r","t","a","i","n","m","e","n","t">>,
        <<"g","a","m","i","n","g">>,
        <<"h","o","t","e","l">>,
        <<"h","o","s","p","i","t","a","l","i","t","y">>,
        <<"e","-","c","o","m","m","e","r","c","e">>,
        <<"e","d","u","c","a","t","i","o","n">>,
        <<"p","e","r","s","o","n","a","l"," ","s","e","r","v","i","c","e","s">>,
        <<"c","o","n","s","u","m","e","r"," ","p","r","o","d","u","c","t","s">> >>],
  [sector |-> "Financial Services", keywords |-> <<
        <<"f","i","n","a","n","c","i","a","l">>,
        <<"i","n","s","u","r","a","n","c","e">>,
        <<"b","a","n","k","i","n","g">>,
        <<"a","s","s","e","t"," ","m","a","n","a","g","e","m","e","n","t">>,
        <<"l","e","n","d","i","n","g">>,
        <<"c","a","p","i","t","a","l"," ","m","a","r","k","e","t","s">>,
        <<"i","n","v","e","s","t","m","e","n","t">>,
        <<"f","i","n","t","e","c","h">>,
        <<"s","p","e","c","i","a","l","t","y"," ","f","i","n","a","n","c","e">> >>],
  [sector |-> "Media & Telecom", keywords |-> <<
        <<"m","e","d","i","a">>,
        <<"t","e","l","e","c","o","m">>,
        <<"t","e","l","e","c","o","m","m","u","n","i","c","a","t","i","o","n","s">>,
        <<"b","r","o","a","d","c","a","s","t","i","n","g">>,
        <<"p","u","b","l","i","s","h","i","n","g">>,
        <<"c","o","m","m","u","n","i","c","a","t","i","o","n","s">>,
        <<"w","i","r","e","l","e","s","s">>,
        <<"c","a","b","l","e">> >>],
  [sector |-> "Energy", keywords |-> <<
        <<"e","n","e","r","g","y">>,
        <<"o","i","l">>,
        <<"g","a","s">>,
        <<"p","e","t","r","o","l","e","u","m">>,
        <<"p","i","p","e","l","i","n","e">>,
        <<"p","o","w","e","r">>,
        <<"u","t","i","l","i","t","i","e","s">>,
        <<"r","e","n","e","w","a","b","l","e">>,
        <<"s","o","l","a","r">>,
        <<"w","i","n","d">>,
        <<"m","i","d","s","t","r","e","a","m">> >>],
  [sector |-> "Real Estate", keywords |-> <<
        <<"r","e","a","l"," ","e","s","t","a","t","e">>,
        <<"p","r","o","p","e","r","t","y">>,
        <<"r","e","i","t">>,
        <<"h","o","u","s","i","n","g">> >>]
  >>

scriptMatchesEntry(industry, k) ==
  \E j \in 1..Len(SCRIPT_SECTOR_KEYWORDS[k].keywords) :
     includes(industry, SCRIPT_SECTOR_KEYWORDS[k].keywords[j])

\* the for-loop over Object.entries(SECTOR_KEYWORDS) of the script
RECURSIVE scriptScanSectors(_, _)
scriptScanSectors(industry, k) ==
  IF k > Len(SCRIPT_SECTOR_KEYWORDS) THEN "Other"
  ELSE IF scriptMatchesEntry(industry, k) THEN SCRIPT_SECTOR_KEYWORDS[k].sector
  ELSE scriptScanSectors(industry, k + 1)

\* classifySector(rawIndustry) of the script
scriptClassifySector(raw) ==
  IF IsNull(raw) \/ Val(raw) = <<>> THEN "Other"
  ELSE scriptScanSectors(trim(toLowerCase(Val(raw))), 1)

\* ---------------------------------------------------------------------
\* Inputs of the classifier: null, and every concatenation of at most
\* MaxParts fragments
\* ---------------------------------------------------------------------
MaxParts == 3

Fragments ==
  { <<" ">>,
    <<"B","i","o">>,
    <<"t","e","c","h">>,
    <<"H","E","A","L","T","H">>,
    <<"R","e","a","l"," ","E","s","t","a","t","e">>,
    <<"I","n","v","e","s","t","m","e","n","t">>,
    <<"G","a","s">>,
    <<"x","y","z">> }

RECURSIVE TextsOfParts(_)
TextsOfParts(n) ==
  IF n = 0 THEN { <<>> }
  ELSE LET shorter == TextsOfParts(n - 1) IN
       shorter \cup { t \o f : t \in shorter, f \in Fragments }

ClassifierInputs == { NULL } \cup { Some(t) : t \in TextsOfParts(MaxParts) }

\* ---------------------------------------------------------------------
\* Home page: getBDCData (app/page.tsx)
\*
\* A percentage or an average is the exact quotient num / den of two
\* integers, kept as the record [num, den]; den = 0 is the NaN of 0 / 0.
\* ---------------------------------------------------------------------
SectorSet == { SECTORS[i] : i \in 1..Len(SECTORS) }

RECURSIVE SumSeq(_)
SumSeq(s) == IF s = <<>> THEN 0 ELSE Head(s) + SumSeq(Tail(s))

\* the row r put into rows, which is ordered by period_date descending
RECURSIVE insertByPeriodDesc(_, _)
insertByPeriodDesc(rows, r) ==
  IF rows = <<>> THEN <<r>>
  ELSE IF Head(rows).period_date >= r.period_date
    THEN <<Head(rows)>> \o insertByPeriodDesc(Tail(rows), r)
    ELSE <<r>> \o rows

\* .order('period_date', { ascending: false })
RECURSIVE orderByPeriodDesc(_)
orderByPeriodDesc(rows) ==
  IF rows = <<>> THEN <<>>
  ELSE insertByPeriodDesc(orderByPeriodDesc(SubSeq(rows, 1, Len(rows) - 1)),
                          rows[Len(rows)])

\* supabase.from('holdings').select('*').eq('bdc_cik', cik).order(...)
queryHoldings(table, cik) ==
  orderByPeriodDesc(SelectSeq(table, LAMBDA h : h.bdc_cik = cik))

\* h.fair_value || 0
fairValueOrZero(h) == IF IsNull(h.fair_value) THEN 0 ELSE Val(h.fair_value)

\* Mutant of resolveSector: the stored sector is not looked at.
resolveSectorAlwaysClassify(h) == classifySector(h.industry_raw)

\* Mutant of resolveSector: the fallback `|| classifySector(...)` is absent,
\* a holding without a stored sector is booked under the key ''.
resolveSectorStoredOnly(h) ==
  IF IsNull(h.industry_sector) THEN "" ELSE Val(h.industry_sector)

\* holding.industry_sector || classifySector(holding.industry_raw)
resolveSector(h) ==
  IF ~IsNull(h.industry_sector) /\ Val(h.industry_sector) # ""
    THEN Val(h.industry_sector)
    ELSE classifySector(h.industry_raw)

\* holdings.filter((h) => h.period_date === latestPeriod)
latestHoldingsOf(rows) ==
  SelectSeq(rows, LAMBDA h : h.period_date = rows[1].period_date)

\* latestHoldings.reduce((sum, h) => sum + (h.fair_value || 0), 0)
totalFairValueOf(latest) ==
  SumSeq([i \in 1..Len(latest) |-> fairValueOrZero(latest[i])])

\* sectorTotals[sector] || 0 after the loop over latestHoldings
sectorTotalOf(latest, sector) ==
  SumSeq([i \in 1..Len(latest) |->
            IF resolveSector(latest[i]) = sector
              THEN fairValueOrZero(latest[i]) ELSE 0])

ZeroPct == [num |-> 0, den |-> 1]

\* sectorExposures after the block `if (!holdingsError && holdings && ...)`:
\* filled for every sector when totalFairValue > 0, empty otherwise
computedExposures(rows, queryOk) ==
  IF queryOk /\ Len(rows) > 0 /\ totalFairValueOf(latestHoldingsOf(rows)) > 0
    THEN [s \in SectorSet |->
            [num |-> sectorTotalOf(latestHoldingsOf(rows), s) * 100,
             den |-> totalFairValueOf(latestHoldingsOf(rows))]]
    ELSE [s \in {} |-> ZeroPct]

\* Mutant of initMissingSectors: the loop "Initialize any missing sectors
\* to 0" is absent.
initMissingSectorsAbsent(exposures) == exposures

\* for (const sector of SECTORS) if (sectorExposures[sector] == null) ... = 0
initMissingSectors(exposures) ==
  [s \in SectorSet |-> IF s \in DOMAIN exposures THEN exposures[s] ELSE ZeroPct]

\* totalFairValue === 0 && bdc.price == null && bdc.dividend_yield == null
isTrulyEmpty(bdc, totalFairValue) ==
  totalFairValue = 0 /\ IsNull(bdc.price) /\ IsNull(bdc.dividend_yield)

\* Mutant of aggregateOne: the filter on the latest period is absent, every
\* holding of the entity is summed.
aggregateOneAllPeriods(bdc, table, queryOk) ==
  LET rows == queryHoldings(table, bdc.cik)
      has  == queryOk /\ Len(rows) > 0
      total == IF has THEN totalFairValueOf(rows) ELSE 0
  IN  [ cik |-> bdc.cik,
        total_fair_value |-> total,
        period_date |-> IF has THEN Some(rows[1].period_date) ELSE NULL,
        sector_exposures |->
          initMissingSectors(
            IF has /\ total > 0
              THEN [s \in SectorSet |->
                      [num |-> sectorTotalOf(rows, s) * 100, den |-> total]]
              ELSE [s \in {} |-> ZeroPct]),
        metrics |-> bdc.metrics ]

\* one iteration of `for (const bdc of bdcs)` up to results.push: the
\* composite record of the entity (period_date NULL stands for '')
aggregateOne(bdc, table, queryOk) ==
  LET rows == queryHoldings(table, bdc.cik)
      has  == queryOk /\ Len(rows) > 0
  IN  [ cik |-> bdc.cik,
        total_fair_value |->
          IF has THEN totalFairValueOf(latestHoldingsOf(rows)) ELSE 0,
        period_date |-> IF has THEN Some(rows[1].period_date) ELSE NULL,
        sector_exposures |-> initMissingSectors(computedExposures(rows, queryOk)),
        metrics |-> bdc.metrics ]

\* getBDCData: the composite records of the entities that are not skipped;
\* failed is the set of ciks whose holdings query returned an error
RECURSIVE getBDCData(_, _, _)
getBDCData(entities, table, failed) ==
  IF entities = <<>> THEN <<>>
  ELSE LET bdc == Head(entities)
           rec == aggregateOne(bdc, table, bdc.cik \notin failed)
           rest == getBDCData(Tail(entities), table, failed)
       IN  IF isTrulyEmpty(bdc.metrics, rec.total_fair_value)
             THEN rest
             ELSE <<rec>> \o rest

\* ---------------------------------------------------------------------
\* Home page: the displayed averages (Home in app/page.tsx)
\* ---------------------------------------------------------------------
\* the truthiness test of `bdcData.filter(b => b.dividend_yield)`
isTruthy(x) == ~IsNull(x) /\ Val(x) # 0

\* b.dividend_yield || 0
numberOrZero(x) == IF isTruthy(x) THEN Val(x) ELSE 0

\* bdcData.filter(b => b.f).reduce((sum, b) => sum + (b.f || 0), 0)
\*   / bdcData.filter(b => b.f).length
averageOf(data, f) ==
  LET kept == SelectSeq(data, LAMBDA b : isTruthy(b.metrics[f])) IN
  [ num |-> SumSeq([i \in 1..Len(kept) |-> numberOrZero(kept[i].metrics[f])]),
    den |-> Len(kept) ]

homeAverages(data) ==
  [ dividend_yield  |-> averageOf(data, "dividend_yield"),
    price_to_nav    |-> averageOf(data, "price_to_nav"),
    non_accrual_pct |-> averageOf(data, "non_accrual_pct") ]

NoAverages ==
  [ dividend_yield  |-> [num |-> 0, den |-> 0],
    price_to_nav    |-> [num |-> 0, den |-> 0],
    non_accrual_pct |-> [num |-> 0, den |-> 0] ]

\* ---------------------------------------------------------------------
\* Inputs of the home page: the content of the tables bdcs and holdings
\* ---------------------------------------------------------------------
MaxHoldings == 2
MaxBdcs == 3

Periods == { 20240630, 20240930 }

EmptyMetrics ==
  [ dividend_yield |-> NULL, dividend_growth_3yr |-> NULL,
    nav_per_share |-> NULL, price |-> NULL, price_to_nav |-> NULL,
    non_accrual_pct |-> NULL, debt_to_equity |-> NULL,
    net_investment_income_yield |-> NULL ]

MetricNames == DOMAIN EmptyMetrics

\* an entity row with no metric, with exactly one metric, or with a yield
\* of 0 or 20
Profiles ==
  { EmptyMetrics }
  \cup { [EmptyMetrics EXCEPT ![f] = Some(10)] : f \in MetricNames }
  \cup { [EmptyMetrics EXCEPT !.dividend_yield = Some(v)] : v \in {0, 20} }

OilAndGas == <<"O","i","l"," ","&"," ","G","a","s">>

SectorChoices ==
  { [industry_sector |-> NULL,               industry_raw |-> NULL],
    [industry_sector |-> NULL,               industry_raw |-> Some(OilAndGas)],
    [industry_sector |-> Some(""),           industry_raw |-> Some(OilAndGas)],
    [industry_sector |-> Some("Healthcare"), industry_raw |-> Some(OilAndGas)],
    [industry_sector |-> Some("Industrials"), industry_raw |-> NULL] }

FairValues == { NULL, Some(50), Some(100) }

HoldingRows ==
  { [ bdc_cik |-> 1, period_date |-> p,
      industry_raw |-> c.industry_raw, industry_sector |-> c.industry_sector,
      fair_value |-> v ] : p \in Periods, c \in SectorChoices, v \in FairValues }
  \cup
  { [ bdc_cik |-> 2, period_date |-> 20240930, industry_raw |-> NULL,
      industry_sector |-> Some("Healthcare"), fair_value |-> Some(100) ] }

RECURSIVE SeqsUpTo(_, _)
SeqsUpTo(S, n) ==
  IF n = 0 THEN { <<>> }
  ELSE LET shorter == SeqsUpTo(S, n - 1) IN
       shorter \cup { Append(q, x) : q \in shorter, x \in S }

\* entity 1 with or without price or NAV, entity 2 with no metric, and up
\* to MaxHoldings holdings
HoldingInputs ==
  { [ bdcs |-> << [cik |-> 1, metrics |-> m], [cik |-> 2, metrics |-> EmptyMetrics] >>,
      holdings |-> t ] :
    m \in { EmptyMetrics,
            [EmptyMetrics EXCEPT !.price = Some(10)],
            [EmptyMetrics EXCEPT !.nav_per_share = Some(10)] },
    t \in SeqsUpTo(HoldingRows, MaxHoldings) }

\* up to MaxBdcs entities of any profile, with no holding or one holding
MetricInputs ==
  { [ bdcs |-> [i \in 1..Len(ms) |-> [cik |-> i, metrics |-> ms[i]]],
      holdings |-> t ] :
    ms \in SeqsUpTo(Profiles, MaxBdcs) \ { <<>> },
    t \in { <<>>,
            << [ bdc_cik |-> 1, period_date |-> 20240630, industry_raw |-> NULL,
                 industry_sector |-> Some("Consumer"), fair_value |-> Some(50) ] >> } }

\* ---------------------------------------------------------------------
\* Watchlist store (lib/watchlist-store.ts).  store is the content of
\* data/watchlist.json; a missing file reads as the empty list.
\* ---------------------------------------------------------------------
UpperOf(s) ==
  [i \in 1..Len(s) |->
     IF \E l \in 1..Len(LOWER) : LOWER[l] = s[i]
       THEN UPPER[CHOOSE l \in 1..Len(LOWER) : LOWER[l] = s[i]]
       ELSE s[i]]

\* String.prototype.toUpperCase
toUpperCase(s) == UpperOf(s)

\* items.findIndex((i) => i.ticker === ticker): 0 stands for -1
findIndex(items, ticker) ==
  IF \E k \in 1..Len(items) : items[k].ticker = ticker
    THEN CHOOSE k \in 1..Len(items) :
           /\ items[k].ticker = ticker
           /\ \A j \in 1..(k - 1) : items[j].ticker # ticker
    ELSE 0

\* Mutant of upsertItem: the changed list is not written back.
upsertItemNoSave(items, item) == items

\* Mutant of upsertItem: the items analyzed 24 hours or more before the new
\* one are dropped from the file.
upsertItemDropStale(items, item) ==
  LET kept == SelectSeq(items, LAMBDA i :
                i.analyzed_at > item.analyzed_at - 24 * 60 * 60 * 1000)
  IN  IF \E k \in 1..Len(kept) : kept[k].ticker = item.ticker
        THEN [k \in 1..Len(kept) |->
                IF kept[k].ticker = item.ticker THEN item ELSE kept[k]]
        ELSE <<item>> \o kept

\* Mutant of upsertItem: the item is always put at the front, an entry of
\* the same ticker stays.
upsertItemAlwaysUnshift(items, item) == <<item>> \o items

\* upsertItem(item): the file content afterwards
upsertItem(items, item) ==
  IF findIndex(items, item.ticker) > 0
    THEN [items EXCEPT ![findIndex(items, item.ticker)] = item]
    ELSE <<item>> \o items

\* Mutant of deleteItem: items.splice(findIndex(...), 1), which removes the
\* last entry when findIndex returns -1.
deleteItemSplice(items, ticker) ==
  LET index == IF findIndex(items, toUpperCase(ticker)) > 0
                 THEN findIndex(items, toUpperCase(ticker)) ELSE Len(items)
  IN  SubSeq(items, 1, index - 1) \o SubSeq(items, index + 1, Len(items))

\* deleteItem(ticker): the file content afterwards
deleteItem(items, ticker) ==
  SelectSeq(items, LAMBDA i : i.ticker # toUpperCase(ticker))

\* getItem(ticker): NULL stands for undefined
getItem(items, ticker) ==
  IF findIndex(items, toUpperCase(ticker)) > 0
    THEN Some(items[findIndex(items, toUpperCase(ticker))])
    ELSE NULL

\* ---------------------------------------------------------------------
\* Quote collaborator (lib/fmp.ts) and AI analysis (lib/analyze-ticker.ts)
\* ---------------------------------------------------------------------
\* Mutant of fetchTickerData: a quote summary without a price is not a
\* failure.
fetchTickerDataNoPriceCheck(yahoo) ==
  IF yahoo.status = "rejected" THEN [ok |-> FALSE, error |-> "not found"]
  ELSE [ ok |-> TRUE,
         data |-> [ price |-> numberOrZero(yahoo.regularMarketPrice),
                    revenue |-> numberOrZero(yahoo.totalRevenue) ] ]

\* fetchTickerData, given what the provider answered: yahoo is "rejected"
\* or the record of the quote summary
fetchTickerData(yahoo) ==
  IF yahoo.status = "rejected" THEN [ok |-> FALSE, error |-> "not found"]
  ELSE IF ~isTruthy(yahoo.regularMarketPrice)
    THEN [ok |-> FALSE, error |-> "not found"]
  ELSE [ ok |-> TRUE,
         data |-> [ price |-> Val(yahoo.regularMarketPrice),
                    revenue |-> numberOrZero(yahoo.totalRevenue) ] ]

\* parsed.risks.slice(0, 3)
slice3(a) == IF Len(a) > 3 THEN SubSeq(a, 1, 3) ELSE a

\* analyzeWithClaude after generateContent returned: json is NULL when
\* JSON.parse throws, else the parsed object
parseAnalysis(json) ==
  IF IsNull(json)
    THEN [ ok |-> TRUE,
           risks |-> <<"Analysis parsing failed">>,
           strengths |-> <<"Analysis parsing failed">>,
           evaluation |-> "Could not generate AI analysis.",
           revenue |-> 0 ]
    ELSE [ ok |-> TRUE,
           risks |-> IF IsNull(Val(json).risks) THEN <<>>
                     ELSE slice3(Val(Val(json).risks)),
           strengths |-> IF IsNull(Val(json).strengths) THEN <<>>
                         ELSE slice3(Val(Val(json).strengths)),
           evaluation |-> IF IsNull(Val(json).evaluation)
                            THEN "Analysis unavailable."
                            ELSE Val(Val(json).evaluation),
           revenue |-> numberOrZero(Val(json).revenue) ]

\* analyzeWithClaude(ticker, data): throws when GEMINI_API_KEY is not
\* configured; otherwise ai.status is "throw" when generateContent fails,
\* else "text" with the parsed JSON
analyzeWithClaude(ai) ==
  IF ~env.GEMINI_API_KEY THEN [ok |-> FALSE]
  ELSE IF ai.status = "throw" THEN [ok |-> FALSE]
  ELSE parseAnalysis(ai.json)

\* how the call ended, for the trace: "nokey" when the key was missing
aiOutcome(ai) == IF ~env.GEMINI_API_KEY THEN "nokey" ELSE ai.status

\* ---------------------------------------------------------------------
\* Analyze route (app/api/watchlist/analyze/route.ts)
\*
\* analyzed_at is the clock value in milliseconds: toISOString keeps the
\* milliseconds and new Date(str).getTime() reads them back.
\*
\* req.trace is the history of the request, one entry per clean ticker the
\* loop has reached: what getItem returned, the clock at that moment, the
\* data fetchTickerData returned, how the AI call ended ("nokey", "throw",
\* "text" or "none"), and what was pushed for it ("result" with the item, "error",
\* or "pending").
\* calls holds the positions of the clean tickers for which the request
\* called the quote collaborator, called the AI collaborator, wrote the file.
\* ---------------------------------------------------------------------
MsPerHour == 60 * 60 * 1000

\* Mutant of isRecent: the comparison admits the cutoff itself.
isRecentInclusive(analyzed, hours, now) == analyzed >= now - hours * MsPerHour

\* isRecent(dateStr, hours), with Date.now() = now
isRecent(analyzed, hours, now) == analyzed > now - hours * MsPerHour

FreshHours == 24
MaxBatchSize == 25

\* tickers.map(t => t.trim().toUpperCase()).filter(t => 0 < t.length <= 10)
cleanTickers(tickers) ==
  SelectSeq([k \in 1..Len(tickers) |-> toUpperCase(trim(tickers[k]))],
            LAMBDA t : Len(t) > 0 /\ Len(t) <= 10)

\* Mutant of isRejected: the size test is >= 25.
isRejectedAt25(body) ==
  ~body.isArray \/ Len(body.tickers) = 0 \/ Len(body.tickers) >= MaxBatchSize

\* the two validation tests that answer 400
isRejected(body) ==
  ~body.isArray \/ Len(body.tickers) = 0 \/ Len(body.tickers) > MaxBatchSize

\* body is the request body the handler was given
IdleReq ==
  [ pc |-> "idle", status |-> 0, clean |-> <<>>, i |-> 1,
    results |-> <<>>, errors |-> <<>>, fmpData |-> NULL, trace |-> <<>>,
    n |-> 0, body |-> [isArray |-> FALSE, tickers |-> <<>>] ]

\* no DELETE request was served yet
NoDelete == [n |-> 0, ticker |-> <<>>, status |-> 0]

\* log lists the calls in the order they were made
NoCalls == [ quote |-> {}, ai |-> {}, writes |-> {}, log |-> <<>> ]

\* the for-loop from position r.i on, up to the next await: cached tickers
\* are pushed to results; the loop stops at the first ticker that needs
\* fetchTickerData (pc "quote") or at the end (the response is sent)
RECURSIVE runLoop(_, _, _)
\* Mutant of runLoop: the catch (err) of a ticker ends the loop, the
\* tickers after a failed one are not processed.
runLoopBreakOnError(r, items, now) ==
  IF r.i > Len(r.clean) \/ r.errors # <<>>
    THEN [r EXCEPT !.pc = "responded", !.status = 200]
  ELSE
    LET cached == getItem(items, r.clean[r.i]) IN
    IF ~IsNull(cached) /\ isRecent(Val(cached).analyzed_at, FreshHours, now)
      THEN runLoop([r EXCEPT !.results = Append(@, Val(cached)),
                             !.trace = Append(@, [cached |-> cached, now |-> now,
                                                  fmp |-> NULL, ai |-> "none",
                                                  out |-> "result",
                                                  item |-> cached]),
                             !.i = @ + 1], items, now)
      ELSE [r EXCEPT !.pc = "quote",
                     !.trace = Append(@, [cached |-> cached, now |-> now,
                                          fmp |-> NULL, ai |-> "none",
                                          out |-> "pending", item |-> NULL])]

runLoop(r, items, now) ==
  IF r.i > Len(r.clean)
    THEN [r EXCEPT !.pc = "responded", !.status = 200]
  ELSE
    LET cached == getItem(items, r.clean[r.i]) IN
    IF ~IsNull(cached) /\ isRecent(Val(cached).analyzed_at, FreshHours, now)
      THEN runLoop([r EXCEPT !.results = Append(@, Val(cached)),
                             !.trace = Append(@, [cached |-> cached, now |-> now,
                                                  fmp |-> NULL, ai |-> "none",
                                                  out |-> "result",
                                                  item |-> cached]),
                             !.i = @ + 1], items, now)
      ELSE [r EXCEPT !.pc = "quote",
                     !.trace = Append(@, [cached |-> cached, now |-> now,
                                          fmp |-> NULL, ai |-> "none",
                                          out |-> "pending", item |-> NULL])]

\* Mutant of pushError: the failed ticker is tried again.
pushErrorAndRetry(r, message) ==
  [r EXCEPT !.errors = Append(@, [ticker |-> r.clean[r.i], error |-> message]),
            !.trace[r.i].out = "error",
            !.fmpData = NULL]

\* catch (err) { errors.push({ ticker, error }) }, and the loop goes on
pushError(r, message) ==
  [r EXCEPT !.errors = Append(@, [ticker |-> r.clean[r.i], error |-> message]),
            !.trace[r.i].out = "error",
            !.fmpData = NULL,
            !.i = @ + 1]

\* the quote call the loop has stopped at, added to the calls
withQuoteCall(c, r) ==
  IF r.pc = "quote"
    THEN [c EXCEPT !.quote = @ \cup {r.i},
                   !.log = Append(@, [op |-> "quote", k |-> r.i])]
    ELSE c

\* the placeholder of the catch (aiErr) branch
aiUnavailable ==
  [ ok |-> TRUE,
    risks |-> <<"AI analysis unavailable - check API key credits">>,
    strengths |-> <<"AI analysis unavailable - check API key credits">>,
    evaluation |-> "AI analysis could not be generated. Financial data shown above is from live market data.",
    revenue |-> 0 ]

\* const item: WatchlistItem = { ... }
buildItem(ticker, fmpData, analysis, now) ==
  [ ticker |-> ticker,
    price |-> fmpData.price,
    revenue |-> IF analysis.revenue # 0 THEN analysis.revenue ELSE fmpData.revenue,
    risks |-> analysis.risks,
    strengths |-> analysis.strengths,
    evaluation |-> analysis.evaluation,
    analyzed_at |-> now ]

\* ---------------------------------------------------------------------
\* Watchlist dashboard (components/watchlist-dashboard.tsx), the client of
\* the watchlist routes.  dash.items is the state `items`, dash.reanalyzing
\* the state `reanalyzing`; dash.pc is "mount" before the saved watchlist
\* is loaded, "idle" between two handlers, "analyzing" while handleAnalyze
\* awaits its POST, "post" when handleReanalyze has its DELETE answered and
\* "await" while it awaits its POST.  dash.hadItem is history: whether the
\* file held an item of the ticker when the running handleReanalyze began.
\* ---------------------------------------------------------------------
DashAtMount ==
  [pc |-> "mount", items |-> <<>>, reanalyzing |-> NULL, hadItem |-> FALSE]

\* the characters of the class [\s,;\n/]
SEPARATORS == WHITESPACE \cup {",", ";", "/"}

\* text.split(/[\s,;\n/]+/): cur is the piece being read, inSep tells that
\* the last character was a separator
RECURSIVE split(_, _, _)
split(text, cur, inSep) ==
  IF text = <<>> THEN <<cur>>
  ELSE IF Head(text) \in SEPARATORS
    THEN IF inSep THEN split(Tail(text), cur, TRUE)
         ELSE <<cur>> \o split(Tail(text), <<>>, TRUE)
    ELSE split(Tail(text), Append(cur, Head(text)), FALSE)

\* t.replace(/[^A-Z.]/g, '')
keepTickerChars(t) ==
  SelectSeq(t, LAMBDA c : c = "." \/ \E u \in 1..Len(UPPER) : UPPER[u] = c)

\* .filter((t, i, arr) => arr.indexOf(t) === i)
deduplicate(arr) ==
  LET first(i) == \A j \in 1..(i - 1) : arr[j] # arr[i]
      F[i \in 0..Len(arr)] ==
        IF i = 0 THEN <<>>
        ELSE IF first(i) THEN Append(F[i - 1], arr[i]) ELSE F[i - 1]
  IN  F[Len(arr)]

\* parseTickers(text)
parseTickers(text) ==
  LET pieces == split(text, <<>>, FALSE)
      mapped == [k \in 1..Len(pieces) |->
                   keepTickerChars(toUpperCase(trim(pieces[k])))]
  IN  deduplicate(SelectSeq(mapped, LAMBDA t : Len(t) > 0 /\ Len(t) <= 10))

\* handleAnalyze's setItems: new Map(prev), existing.set(result.ticker,
\* result) for every result, Array.from(existing.values())
RECURSIVE mergeResults(_, _)
mergeResults(prev, results) ==
  IF results = <<>> THEN prev
  ELSE LET r == Head(results) IN
       mergeResults(
         IF \E k \in 1..Len(prev) : prev[k].ticker = r.ticker
           THEN [k \in 1..Len(prev) |->
                   IF prev[k].ticker = r.ticker THEN r ELSE prev[k]]
           ELSE Append(prev, r),
         Tail(results))

\* handleRemove's setItems: prev.filter((item) => item.ticker !== ticker)
withoutTicker(prev, ticker) == SelectSeq(prev, LAMBDA item : item.ticker # ticker)

\* handleReanalyze's setItems, run when data.results has an entry
reanalyzedItems(prev, ticker, results) ==
  IF Len(results) > 0
    THEN [k \in 1..Len(prev) |->
            IF prev[k].ticker = ticker THEN results[1] ELSE prev[k]]
    ELSE prev

\* the tickers of the cards the dashboard shows
shownTickers(d) == { d.items[k].ticker : k \in 1..Len(d.items) }

\* ---------------------------------------------------------------------
\* Credentials (process.env) and the admin client (lib/supabase-admin.ts)
\* ---------------------------------------------------------------------
AllConfigured ==
  [ GEMINI_API_KEY |-> TRUE,
    NEXT_PUBLIC_SUPABASE_URL |-> TRUE,
    SUPABASE_SERVICE_ROLE_KEY |-> TRUE ]

\* Mutant of getSupabaseAdmin: the client is created without the test of
\* the two variables.
getSupabaseAdminUnchecked(e) == TRUE

\* getSupabaseAdmin(): FALSE stands for the Error it throws
getSupabaseAdmin(e) ==
  e.NEXT_PUBLIC_SUPABASE_URL /\ e.SUPABASE_SERVICE_ROLE_KEY

\* ---------------------------------------------------------------------
\* Refresh job (app/api/cron/refresh-prices/route.ts) and its quote
\* collaborator (lib/yahoo-bdc.ts).  Numbers are counted in hundredths.
\*
\* cron.log is the history of the run: one entry per call started or
\* finished, with the position of the entity and the clock.
\* ---------------------------------------------------------------------
DelayMs == 500

\* Mutant of delayUntil: the timer is due at once.
delayUntilNow(now, ms) == now

\* delay(ms): the time at which the promise resolves at the earliest
delayUntil(now, ms) == now + ms

\* fetchBDCData(ticker), given the quoteSummary result
fetchBDCData(result) ==
  [ price |-> result.regularMarketPrice,
    dividend_yield |->
      IF ~IsNull(result.dividendYield) THEN Some(Val(result.dividendYield) * 100)
      ELSE IF ~IsNull(result.trailingAnnualDividendYield)
        THEN Some(Val(result.trailingAnnualDividendYield) * 100)
      ELSE NULL,
    nav_per_share |-> result.bookValue,
    debt_to_equity |->
      IF ~IsNull(result.debtToEquity) THEN Some(Val(result.debtToEquity) \div 100)
      ELSE NULL ]

\* Math.round(x / y * 100) / 100, in hundredths
roundedRatio(x, y) == (200 * x + y) \div (2 * y)

NoFields ==
  [ updated_at |-> NULL,
    price |-> NULL, dividend_yield |-> NULL, nav_per_share |-> NULL,
    debt_to_equity |-> NULL, price_to_nav |-> NULL ]

\* the update object: NULL stands for a key that is not set
updateFieldsOf(yahooData, now) ==
  [ updated_at |-> Some(now),
    price |-> yahooData.price,
    dividend_yield |-> yahooData.dividend_yield,
    nav_per_share |-> yahooData.nav_per_share,
    debt_to_equity |-> yahooData.debt_to_equity,
    price_to_nav |->
      IF /\ ~IsNull(yahooData.price) /\ ~IsNull(yahooData.nav_per_share)
         /\ Val(yahooData.nav_per_share) > 0
        THEN Some(roundedRatio(Val(yahooData.price), Val(yahooData.nav_per_share)))
        ELSE NULL ]

\* Object.keys(updateFields).length
keyCount(fields) == Cardinality({ f \in DOMAIN fields : ~IsNull(fields[f]) })

\* Mutant of applyUpdate: every column of the update is written, a column
\* without a fresh value as null.
applyUpdateAllKeys(table, cik, fields) ==
  [k \in 1..Len(table) |->
     IF table[k].cik # cik THEN table[k]
     ELSE [table[k] EXCEPT
             !.updated_at = fields.updated_at,
             !.metrics = [f \in DOMAIN @ |->
                            IF f \in DOMAIN fields THEN fields[f] ELSE @[f]]]]

\* supabase.from('bdcs').update(updateFields).eq('cik', cik)
applyUpdate(table, cik, fields) ==
  [k \in 1..Len(table) |->
     IF table[k].cik # cik THEN table[k]
     ELSE [table[k] EXCEPT
             !.updated_at = fields.updated_at,
             !.metrics = [f \in DOMAIN @ |->
                            IF f \in DOMAIN fields /\ ~IsNull(fields[f])
                              THEN fields[f] ELSE @[f]]]]

\* .select('cik, ticker').not('ticker', 'is', null)
selectWithTicker(table) ==
  LET kept == SelectSeq(table, LAMBDA b : ~IsNull(b.ticker)) IN
  [k \in 1..Len(kept) |-> [cik |-> kept[k].cik, ticker |-> Val(kept[k].ticker)]]

IdleCron ==
  [ pc |-> "idle", status |-> 0, rows |-> <<>>, i |-> 1, results |-> <<>>,
    yahooData |-> NULL, updateFields |-> NoFields, timer |-> 0, log |-> <<>>,
    summary |-> NULL ]

CountStatus(results, status) ==
  Len(SelectSeq(results, LAMBDA r : r.status = status))

\* the response after the loop
summaryOf(c) ==
  [ total |-> Len(c.rows),
    updated |-> CountStatus(c.results, "updated"),
    errors |-> CountStatus(c.results, "error"),
    skipped |-> Len(c.results) - CountStatus(c.results, "updated")
                  - CountStatus(c.results, "error") ]

\* the for-loop from position c.i on, up to the next await: entities whose
\* ticker is falsy are passed over; the loop stops at the first entity that
\* needs fetchBDCData (pc "quote") or at the end (the response is sent)
RECURSIVE cronLoop(_, _)
cronLoop(c, now) ==
  IF c.i > Len(c.rows)
    THEN [c EXCEPT !.pc = "responded", !.status = 200,
                   !.summary = Some(summaryOf(c))]
  ELSE IF c.rows[c.i].ticker = <<>>
    THEN cronLoop([c EXCEPT !.i = @ + 1], now)
  ELSE [c EXCEPT !.pc = "quote",
                 !.log = Append(@, [op |-> "quote", i |-> c.i, at |-> now])]

\* results.push({ ticker, status }), then await delay(500)
pushStatus(c, status, now) ==
  [c EXCEPT !.results = Append(@, [ticker |-> c.rows[c.i].ticker, status |-> status]),
            !.pc = "delay",
            !.timer = delayUntil(now, DelayMs),
            !.log = Append(@, [op |-> "delay", i |-> c.i, at |-> now])]

\* ---------------------------------------------------------------------
\* Ingestion of holdings (scripts/import-sec-data.ts)
\* ---------------------------------------------------------------------
\* holdings.map(h => ({ ... })) of importHoldingsFromSEC
holdingsToInsert(cik, filingDate, parsed) ==
  [k \in 1..Len(parsed) |->
     [ bdc_cik |-> cik,
       period_date |-> filingDate,
       company_name |-> parsed[k].company_name,
       industry_raw |-> parsed[k].industry_raw,
       industry_sector |-> Some(scriptClassifySector(parsed[k].industry_raw)),
       fair_value |-> Some(parsed[k].fair_value) ]]

RepresentativePeriod == 20250930

\* the holdings importRepresentativeData builds for one sector of an
\* entity: one row per company, with the rounded values given
representativeHoldings(cik, sector, values) ==
  [k \in 1..Len(values) |->
     [ bdc_cik |-> cik,
       period_date |-> RepresentativePeriod,
       company_name |-> <<sector.name, k>>,
       industry_raw |-> Some(sector.text),
       industry_sector |-> Some(sector.name),
       fair_value |-> Some(values[k]) ]]

\* supabase.from('holdings').delete().eq('bdc_cik', cik)
deleteHoldingsOf(table, cik) == SelectSeq(table, LAMBDA h : h.bdc_cik # cik)

\* supabase.from('holdings').insert(rows)
insertHoldings(table, rows) == table \o rows

IdleIngest ==
  [ pc |-> "idle", path |-> "none", cik |-> 0, rows |-> <<>>, n |-> 0 ]

\* ---------------------------------------------------------------------
\* Inputs of the watchlist routes
\* ---------------------------------------------------------------------
MaxBatch == 2
MaxSubmitted == 3
TickHours == 12
MaxClockHours == 36
MaxDeletes == 1

RawTickers == { <<"a"," ">>, <<"B">>, <<" ">> }

RECURSIVE Repeat(_, _)
Repeat(x, n) == IF n = 0 THEN <<>> ELSE <<x>> \o Repeat(x, n - 1)

\* the ticker of a DELETE body: a raw ticker, or missing / empty
DeleteBodies == RawTickers \cup { <<"A">>, <<>> }

\* MaxSubmitted bounds the tickers accepted over all requests (req.n)
\* request bodies: tickers is not an array, or an array of up to MaxBatch
\* raw tickers, or an array of MaxBatchSize or MaxBatchSize + 1 tickers
RequestBodies ==
  { [isArray |-> FALSE, tickers |-> <<>>] }
  \cup { [isArray |-> TRUE, tickers |-> t] : t \in SeqsUpTo(RawTickers, MaxBatch) }
  \cup { [isArray |-> TRUE,
          tickers |-> Repeat(<<" ">>, MaxBatchSize - 1) \o << <<"A">> >>] }
  \cup { [isArray |-> TRUE, tickers |-> Repeat(<<"A">>, MaxBatchSize + 1)] }

YahooResponses ==
  { [status |-> "rejected"],
    [status |-> "fulfilled", regularMarketPrice |-> NULL, totalRevenue |-> NULL],
    [status |-> "fulfilled", regularMarketPrice |-> Some(250), totalRevenue |-> Some(500)] }

\* the AI call fails; its text is not JSON; its JSON has 3 risks and 3
\* strengths; 4 of each; 2 risks and no strengths array
AIResponses ==
  { [status |-> "throw"],
    [status |-> "text", json |-> NULL],
    [status |-> "text",
     json |-> Some([ risks |-> Some(<<"r1", "r2", "r3">>),
                     strengths |-> Some(<<"s1", "s2", "s3">>),
                     evaluation |-> Some("Worth a closer look."),
                     revenue |-> Some(900) ])],
    [status |-> "text",
     json |-> Some([ risks |-> Some(<<"r1", "r2", "r3", "r4">>),
                     strengths |-> Some(<<"s1", "s2", "s3", "s4">>),
                     evaluation |-> Some("Worth a closer look."),
                     revenue |-> Some(900) ])],
    [status |-> "text",
     json |-> Some([ risks |-> Some(<<"r1", "r2">>), strengths |-> NULL,
                     evaluation |-> NULL, revenue |-> NULL ])] }

\* ---------------------------------------------------------------------
\* Inputs of the refresh job
\* ---------------------------------------------------------------------
MaxCronBdcs == 3
TickMs == 250
MaxCronMs == 1500
MaxJobBdcs == 2

CronTickerNames == << <<"X">>, <<"Y">>, <<"Z">>, <<"W">> >>

StoredMetrics ==
  [EmptyMetrics EXCEPT !.price = Some(900), !.non_accrual_pct = Some(150),
                       !.debt_to_equity = Some(110), !.price_to_nav = Some(95)]

\* entity k has no ticker, an empty ticker, or its own ticker
CronRows(k) ==
  { [cik |-> k, ticker |-> t, metrics |-> StoredMetrics, updated_at |-> NULL] :
      t \in { NULL, Some(<<>>), Some(CronTickerNames[k]) } }

RECURSIVE CronTables(_)
CronTables(n) ==
  IF n = 0 THEN { <<>> }
  ELSE CronTables(n - 1)
         \cup { Append(t, r) : t \in { u \in CronTables(n - 1) : Len(u) = n - 1 },
                               r \in CronRows(n) }

\* quoteSummary throws; returns no figure; returns every figure; returns a
\* price, a book value of 0 and a trailing yield of 0
QuoteSummaries ==
  { [status |-> "throw"],
    [status |-> "ok", regularMarketPrice |-> NULL, dividendYield |-> NULL,
     trailingAnnualDividendYield |-> NULL, bookValue |-> NULL, debtToEquity |-> NULL],
    [status |-> "ok", regularMarketPrice |-> Some(1000), dividendYield |-> Some(10),
     trailingAnnualDividendYield |-> Some(9), bookValue |-> Some(400),
     debtToEquity |-> Some(12000)],
    [status |-> "ok", regularMarketPrice |-> Some(1000), dividendYield |-> NULL,
     trailingAnnualDividendYield |-> Some(0), bookValue |-> Some(0),
     debtToEquity |-> NULL] }

Outcomes == { "ok", "error" }

EnvChoices ==
  [ GEMINI_API_KEY : BOOLEAN, NEXT_PUBLIC_SUPABASE_URL : BOOLEAN,
    SUPABASE_SERVICE_ROLE_KEY : BOOLEAN ]

\* ---------------------------------------------------------------------
\* Inputs of the ingestion
\* ---------------------------------------------------------------------
MaxIngests == 3

IngestCiks == { 1, 2 }

\* getLatestFiling: null, or a filing with its filingDate
Filings == { NULL } \cup { Some([filingDate |-> p]) : p \in Periods }

Midstream == <<"M","i","d","s","t","r","e","a","m">>

\* parseFilingForHoldings: nothing parsed, one holding, or two
ParsedHoldings ==
  { <<>>,
    << [company_name |-> "Acme", industry_raw |-> Some(<<"G","a","s">>),
        fair_value |-> 50] >>,
    << [company_name |-> "Pipe", industry_raw |-> Some(Midstream),
        fair_value |-> 50] >>,
    << [company_name |-> "Acme", industry_raw |-> Some(<<"x","y","z">>),
        fair_value |-> 50],
       [company_name |-> "Bolt", industry_raw |-> Some(<<"B","i","o","t","e","c","h">>),
        fair_value |-> 100] >> }

HealthcareSector ==
  [ name |-> "Healthcare",
    text |-> <<"H","e","a","l","t","h","c","a","r","e">> ]

\* Math.round(companyValue) of the companies of one sector
RepresentativeValues == { <<70, 130>>, <<100, 100>> }

\* ---------------------------------------------------------------------
\* BDCTable (components/bdc-table.tsx)
\* ---------------------------------------------------------------------
\* the useState initial values, over no data; clicks lists the keys
\* handed to handleSort so far
IdleTable ==
  [ data |-> <<>>, sortKey |-> "dividend_yield", sortDirection |-> "desc",
    filterSector |-> "all", sortedData |-> <<>>, clicks |-> <<>> ]

\* the UTF-16 code unit of a character, for the characters names are
\* written with
charCode(c) ==
  IF \E l \in 1..Len(LOWER) : LOWER[l] = c
    THEN 96 + (CHOOSE l \in 1..Len(LOWER) : LOWER[l] = c)
  ELSE IF \E u \in 1..Len(UPPER) : UPPER[u] = c
    THEN 64 + (CHOOSE u \in 1..Len(UPPER) : UPPER[u] = c)
  ELSE IF c = " " THEN 32
  ELSE IF c = "&" THEN 38
  ELSE 46

\* a < b on two strings
RECURSIVE stringLess(_, _)
stringLess(a, b) ==
  IF b = <<>> THEN FALSE
  ELSE IF a = <<>> THEN TRUE
  ELSE IF charCode(Head(a)) # charCode(Head(b))
    THEN charCode(Head(a)) < charCode(Head(b))
  ELSE stringLess(Tail(a), Tail(b))

\* the sort keys that name a scalar metric
ScalarSortKeys ==
  { "dividend_yield", "dividend_growth_3yr", "price_to_nav",
    "non_accrual_pct", "debt_to_equity" }

SortKeys == {"name", "total_fair_value"} \cup ScalarSortKeys \cup SectorSet

\* bdc.sector_exposures[sector] || 0: a missing key and NaN give 0
exposureOrZero(bdc, sector) ==
  IF sector \in DOMAIN bdc.sector_exposures
     /\ bdc.sector_exposures[sector].den # 0
    THEN bdc.sector_exposures[sector]
    ELSE ZeroPct

\* Mutant of hasExposure: the test is >= 0.
hasExposureOrZero(bdc, sector) == exposureOrZero(bdc, sector).num >= 0

\* (bdc.sector_exposures[filterSector] || 0) > 0
hasExposure(bdc, sector) == exposureOrZero(bdc, sector).num > 0

\* let filtered = data; if (filterSector !== 'all') filtered = data.filter(...)
filterBySector(data, filterSector) ==
  IF filterSector = "all" THEN data
  ELSE SelectSeq(data, LAMBDA bdc : hasExposure(bdc, filterSector))

\* aVal < bVal for the values the comparator takes under the sort key
lessThan(a, b, key) ==
  IF key = "name"
    THEN stringLess(toLowerCase(a.name), toLowerCase(b.name))
  ELSE IF key = "total_fair_value"
    THEN a.total_fair_value < b.total_fair_value
  ELSE IF key \in ScalarSortKeys
    THEN numberOrZero(a.metrics[key]) < numberOrZero(b.metrics[key])
  ELSE exposureOrZero(a, key).num * exposureOrZero(b, key).den
         < exposureOrZero(b, key).num * exposureOrZero(a, key).den

\* the comparator given to sort
compare(a, b, key, direction) ==
  IF lessThan(a, b, key) THEN (IF direction = "asc" THEN -1 ELSE 1)
  ELSE IF lessThan(b, a, key) THEN (IF direction = "asc" THEN 1 ELSE -1)
  ELSE 0

\* Array.prototype.sort is stable: an element is put behind the elements
\* that compare equal to it and came before it
RECURSIVE insertStable(_, _, _, _)
\* Mutant of insertStable: an element is put in front of the elements that
\* compare equal to it.
insertBeforeEqual(sorted, x, key, direction) ==
  IF sorted = <<>> THEN <<x>>
  ELSE IF compare(Head(sorted), x, key, direction) >= 0 THEN <<x>> \o sorted
  ELSE <<Head(sorted)>> \o insertStable(Tail(sorted), x, key, direction)

insertStable(sorted, x, key, direction) ==
  IF sorted = <<>> THEN <<x>>
  ELSE IF compare(Head(sorted), x, key, direction) > 0 THEN <<x>> \o sorted
  ELSE <<Head(sorted)>> \o insertStable(Tail(sorted), x, key, direction)

\* [...filtered].sort((a, b) => ...)
RECURSIVE sort(_, _, _)
sort(arr, key, direction) ==
  IF arr = <<>> THEN <<>>
  ELSE insertStable(sort(SubSeq(arr, 1, Len(arr) - 1), key, direction),
                    arr[Len(arr)], key, direction)

\* the useMemo of sortedData
sortedDataOf(t) ==
  sort(filterBySector(t.data, t.filterSector), t.sortKey, t.sortDirection)

\* Mutant of dataAfterSort: filtered is sorted in place, and is data itself
\* when no sector is chosen.
dataSortedInPlace(t) ==
  IF t.filterSector = "all" THEN sortedDataOf(t) ELSE t.data

\* the prop data after the useMemo ran: sort is given the copy
\* [...filtered], data keeps its order
dataAfterSort(t) == t.data

\* handleSort(key): the key and direction afterwards
nextSort(t, key) ==
  IF t.sortKey = key
    THEN [t EXCEPT !.sortDirection = IF @ = "desc" THEN "asc" ELSE "desc"]
    ELSE [t EXCEPT !.sortKey = key, !.sortDirection = "desc"]

\* the component rendered again after a state change
rendered(t) == [t EXCEPT !.sortedData = sortedDataOf(t), !.data = dataAfterSort(t)]

\* ---------------------------------------------------------------------
\* Entity page: getBDCDetails (app/bdc/[cik]/page.tsx)
\* ---------------------------------------------------------------------
\* getBDCDetails was not called
NoDetail ==
  [ pc |-> "idle", cik |-> 0, holdings |-> <<>>, sectorSummary |-> <<>>,
    totalValue |-> 0, periodDate |-> NULL ]

\* sectorTotals[sector] after the loop: the value and the count booked
\* under the sector
sectorTotalsOf(latest, sector) ==
  [ value |-> SumSeq([i \in 1..Len(latest) |->
                        IF resolveSector(latest[i]) = sector
                          THEN fairValueOrZero(latest[i]) ELSE 0]),
    count |-> Len(SelectSeq(latest, LAMBDA h : resolveSector(h) = sector)) ]

\* .sort((a, b) => b.value - a.value), a stable sort
RECURSIVE insertByValueDesc(_, _)
insertByValueDesc(sorted, x) ==
  IF sorted = <<>> THEN <<x>>
  ELSE IF x.value - Head(sorted).value > 0 THEN <<x>> \o sorted
  ELSE <<Head(sorted)>> \o insertByValueDesc(Tail(sorted), x)

RECURSIVE sortByValueDesc(_)
sortByValueDesc(arr) ==
  IF arr = <<>> THEN <<>>
  ELSE insertByValueDesc(sortByValueDesc(SubSeq(arr, 1, Len(arr) - 1)),
                         arr[Len(arr)])

\* SECTORS.map(...).filter((s) => s.value > 0).sort(...)
sectorSummaryOf(latest, totalValue) ==
  sortByValueDesc(
    SelectSeq(
      [i \in 1..Len(SECTORS) |->
         [ sector |-> SECTORS[i],
           value |-> sectorTotalsOf(latest, SECTORS[i]).value,
           percentage |->
             IF totalValue > 0
               THEN [num |-> sectorTotalsOf(latest, SECTORS[i]).value * 100,
                     den |-> totalValue]
               ELSE ZeroPct,
           count |-> sectorTotalsOf(latest, SECTORS[i]).count ]],
      LAMBDA s : s.value > 0))

\* getBDCDetails(cik) once the entity row and the holdings were fetched
getBDCDetails(holdingsTable, cik) ==
  LET rows == queryHoldings(holdingsTable, cik)
      latest == IF rows = <<>> THEN <<>> ELSE latestHoldingsOf(rows)
  IN  [ pc |-> "done", cik |-> cik, holdings |-> latest,
        sectorSummary |-> sectorSummaryOf(latest, totalFairValueOf(latest)),
        totalValue |-> totalFairValueOf(latest),
        periodDate |-> IF rows = <<>> THEN NULL ELSE Some(rows[1].period_date) ]

\* ---------------------------------------------------------------------
\* A second analyze request in the same process
\* ---------------------------------------------------------------------
\* peer is a second invocation of POST /api/watchlist/analyze, with the
\* fields of req; peer.snapshot is what the file held when the request
\* last stopped at an await.
\* no second request is being served
IdlePeer ==
  [ f \in DOMAIN IdleReq \cup {"snapshot"} |->
      IF f = "snapshot" THEN <<>> ELSE IdleReq[f] ]

\* Mutant of loadWatchlist: the list a store operation works on was read
\* before the awaited call, so the read and the write are not one step.
loadWatchlistBeforeAwait(file, snapshot) == snapshot

\* loadWatchlist() inside upsertItem: readFileSync reads the file as it is
\* at the call, and nothing runs between it and writeFileSync
loadWatchlist(file, snapshot) == file

\* the file as the request sees it when it stops at an await
atAwait(r, file) ==
  IF r.pc \in {"quote", "ai"} THEN [r EXCEPT !.snapshot = file] ELSE r

\* ---------------------------------------------------------------------
\* Inputs of the dashboard: the watchlist file the session starts from and
\* the texts typed into the input box
\* ---------------------------------------------------------------------
\* an item of ticker t as an earlier request saved it at time 0
SavedItem(t) ==
  buildItem(t, [price |-> 250, revenue |-> 500], aiUnavailable, 0)

DashStores ==
  { <<>>, << SavedItem(<<"A">>) >>, << SavedItem(<<"B">>), SavedItem(<<"A">>) >> }

\* "a", "B", "a, B", "a A" (a duplicate) and "$" (no ticker)
DashTexts ==
  { <<"a">>, <<"B">>, <<"a", ",", " ", "B">>, <<"a", " ", "A">>, <<"$">> }

\* ---------------------------------------------------------------------
\* Inputs of the table: the composite records handed to BDCTable
\* ---------------------------------------------------------------------
MaxRows == 3
MaxClicks == 2

\* n percent
Pct(n) == [num |-> n * 100, den |-> 100]

\* "Ares" (yield 10, Healthcare 50 %, Energy 50 %), "ARES" (no metric, every
\* sector 0 %), "Blue" (yield 0, Healthcare 100 %), "Owl" (yield 10, growth
\* -5, no key in sector_exposures)
TableRecords ==
  { [ cik |-> 1, name |-> <<"A","r","e","s">>, total_fair_value |-> 100,
      metrics |-> [EmptyMetrics EXCEPT !.dividend_yield = Some(10)],
      sector_exposures |->
        [s \in SectorSet |-> IF s \in {"Healthcare", "Energy"} THEN Pct(50)
                             ELSE ZeroPct] ],
    [ cik |-> 2, name |-> <<"A","R","E","S">>, total_fair_value |-> 100,
      metrics |-> EmptyMetrics,
      sector_exposures |-> [s \in SectorSet |-> ZeroPct] ],
    [ cik |-> 3, name |-> <<"B","l","u","e">>, total_fair_value |-> 50,
      metrics |-> [EmptyMetrics EXCEPT !.dividend_yield = Some(0)],
      sector_exposures |->
        [s \in SectorSet |-> IF s = "Healthcare" THEN Pct(100) ELSE ZeroPct] ],
    [ cik |-> 4, name |-> <<"O","w","l">>, total_fair_value |-> 0,
      metrics |-> [EmptyMetrics EXCEPT !.dividend_yield = Some(10),
                                       !.dividend_growth_3yr = Some(-5)],
      sector_exposures |-> [s \in {} |-> ZeroPct] ] }

\* up to MaxRows different records in any order
TableInputs ==
  { d \in SeqsUpTo(TableRecords, MaxRows) :
      \A i, j \in 1..Len(d) : i # j => d[i] # d[j] }

\* the column headers and the filter values the user picks from
SortChoices ==
  { "name", "total_fair_value", "dividend_yield", "dividend_growth_3yr",
    "Healthcare", "Energy" }

FilterChoices == { "all", "Healthcare", "Energy", "Other" }

\* ---------------------------------------------------------------------
\* Inputs of the concurrent requests
\* ---------------------------------------------------------------------
MaxPeerSubmitted == 2

ConcTickers == { <<"A">>, <<"B">> }

\* a body that is no array, and the arrays of up to MaxBatch tickers
ConcBodies ==
  { [isArray |-> FALSE, tickers |-> <<>>] }
  \cup { [isArray |-> TRUE, tickers |-> t] : t \in SeqsUpTo(ConcTickers, MaxBatch) }

\* the quote summary is rejected, or has a price
ConcYahoo ==
  { y \in YahooResponses :
      y.status = "rejected" \/ ~IsNull(y.regularMarketPrice) }

\* the AI call fails, or answers with 3 risks and 3 strengths
ConcAI ==
  { a \in AIResponses :
      a.status = "throw" \/ (~IsNull(a.json) /\ Val(a.json).risks = Some(<<"r1", "r2", "r3">>)) }

\* ---------------------------------------------------------------------
\* Inputs of the entity page: holdings with and without a stored sector
\* ---------------------------------------------------------------------
\* SectorChoices, and an empty industry_raw or an empty stored sector
ResolutionChoices ==
  SectorChoices \cup
  { [industry_sector |-> NULL,     industry_raw |-> Some(<<>>)],
    [industry_sector |-> Some(""), industry_raw |-> NULL],
    [industry_sector |-> Some(""), industry_raw |-> Some(<<>>)] }

ResolutionRows ==
  { [ bdc_cik |-> 1, period_date |-> p,
      industry_raw |-> c.industry_raw, industry_sector |-> c.industry_sector,
      fair_value |-> v ] : p \in Periods, c \in ResolutionChoices, v \in FairValues }

\* entity 1 with a price and up to MaxHoldings holdings
ResolutionInputs ==
  { [ bdcs |-> << [cik |-> 1, metrics |-> [EmptyMetrics EXCEPT !.price = Some(10)]] >>,
      holdings |-> t ] : t \in SeqsUpTo(ResolutionRows, MaxHoldings) }

\* ---------------------------------------------------------------------
\* Initial states
\* ---------------------------------------------------------------------
IdlePage == [pc |-> "idle", bdcError |-> FALSE, failed |-> {}]

ClassifierAtRest == rawIndustry = NULL /\ classified = "pending"

PageAtRest ==
  /\ bdcs = <<>> /\ holdings = <<>> /\ bdcData = <<>>
  /\ pagePc = IdlePage /\ avgs = NoAverages

WatchAtRest ==
  /\ store = <<>> /\ clock = 0 /\ req = IdleReq /\ calls = NoCalls
  /\ del = NoDelete

\* every credential is configured, the refresh job is not running
CronAtRest == env = AllConfigured /\ cron = IdleCron /\ ingest = IdleIngest

\* the table, the entity page and the dashboard are not rendered, no second
\* request is served
ViewAtRest ==
  /\ bdcTable = IdleTable /\ detail = NoDetail
  /\ dash = DashAtMount /\ peer = IdlePeer

\* the watchlist: no file yet, no request
Init == ClassifierAtRest /\ PageAtRest /\ WatchAtRest /\ CronAtRest /\ ViewAtRest

\* the classifier about to be called on some input
InitClassifier ==
  /\ rawIndustry \in ClassifierInputs
  /\ classified = "pending"
  /\ PageAtRest /\ WatchAtRest /\ CronAtRest /\ ViewAtRest

\* the home page about to be rendered over some content of the tables
InitPage ==
  /\ \E in \in HoldingInputs \cup MetricInputs :
        bdcs = in.bdcs /\ holdings = in.holdings
  /\ bdcData = <<>> /\ pagePc = IdlePage /\ avgs = NoAverages
  /\ ClassifierAtRest /\ WatchAtRest /\ CronAtRest /\ ViewAtRest

\* ---------------------------------------------------------------------
\* Actions
\* ---------------------------------------------------------------------
\* a call of classifySector
Classify ==
  /\ classified = "pending"
  /\ classified' = classifySector(rawIndustry)
  /\ UNCHANGED <<viewVars, peer, dash, rawIndustry, pageVars, watchVars, cronVars>>

\* Home: getBDCData, then the summary averages when there is data.
\* bdcError: the query of bdcs failed; failed: the entities whose holdings
\* query failed
Render(bdcError, failed) ==
  /\ pagePc.pc = "idle"
  /\ LET data == IF bdcError THEN <<>> ELSE getBDCData(bdcs, holdings, failed) IN
       /\ bdcData' = data
       /\ avgs' = IF data = <<>> THEN NoAverages ELSE homeAverages(data)
  /\ pagePc' = [pc |-> "rendered", bdcError |-> bdcError, failed |-> failed]
  /\ UNCHANGED <<viewVars, peer, dash, bdcs, holdings, classifierVars, watchVars, cronVars>>

\* POST /api/watchlist/analyze up to its first await of fetchTickerData;
\* the client that sent the request takes its own step with it
POST(body) ==
  /\ req.pc \in {"idle", "responded"}
  /\ IF isRejected(body)
       THEN /\ req' = [IdleReq EXCEPT !.pc = "responded", !.status = 400,
                                          !.n = req.n, !.body = body]
            /\ calls' = NoCalls
       ELSE /\ req.n + Len(cleanTickers(body.tickers)) <= MaxSubmitted
            /\ LET r == runLoop([IdleReq EXCEPT !.pc = "loop", !.body = body,
                                                 !.n = req.n + Len(cleanTickers(body.tickers)),
                                                 !.clean = cleanTickers(body.tickers)],
                                 store, clock)
               IN  /\ req' = r
                   /\ calls' = withQuoteCall(NoCalls, r)
  /\ UNCHANGED <<viewVars, peer, store, clock, del, classifierVars, pageVars, cronVars>>

\* fetchTickerData settles: on an error the catch (err) pushes to errors
\* and the loop goes on; otherwise analyzeWithClaude is called
QuoteReturn(yahoo) ==
  /\ req.pc = "quote"
  /\ LET res == fetchTickerData(yahoo) IN
       IF ~res.ok
         THEN LET r == runLoop(pushError(req, res.error), store, clock)
              IN  /\ req' = r
                  /\ calls' = withQuoteCall(calls, r)
         ELSE /\ req' = [req EXCEPT !.pc = "ai", !.fmpData = Some(res.data),
                                    !.trace[req.i].fmp = Some(res.data)]
              /\ calls' = [calls EXCEPT !.ai = @ \cup {req.i},
                                         !.log = Append(@, [op |-> "ai", k |-> req.i])]
  /\ UNCHANGED <<viewVars, peer, dash, store, clock, del, classifierVars, pageVars, cronVars>>

\* Mutant of analysisOrPlaceholder: there is no inner try/catch, a failed
\* AI call is a failure of the ticker.
analysisRethrown(ai) == analyzeWithClaude(ai)

\* try { analysis = await analyzeWithClaude(...) } catch (aiErr) { ... }
analysisOrPlaceholder(ai) ==
  IF analyzeWithClaude(ai).ok THEN analyzeWithClaude(ai) ELSE aiUnavailable

\* analyzeWithClaude settles: the item is built, upserted and pushed to
\* results, and the loop goes on
AIReturn(ai) ==
  /\ req.pc = "ai"
  /\ LET analysis == analysisOrPlaceholder(ai) IN
       IF ~analysis.ok
         THEN LET r == runLoop(
                     pushError([req EXCEPT !.trace[req.i].ai = aiOutcome(ai)],
                               "AI error"),
                     store, clock)
              IN  /\ req' = r
                  /\ calls' = withQuoteCall(calls, r)
                  /\ store' = store
         ELSE LET item == buildItem(req.clean[req.i], Val(req.fmpData), analysis, clock)
                  saved == upsertItem(store, item)
                  r == runLoop(
                     [req EXCEPT !.results = Append(@, item),
                                 !.trace[req.i].out = "result",
                                 !.trace[req.i].ai = aiOutcome(ai),
                                 !.trace[req.i].item = Some(item),
                                 !.fmpData = NULL,
                                 !.i = @ + 1],
                     saved, clock)
              IN  /\ store' = saved
                  /\ req' = r
                  /\ calls' = withQuoteCall(
                                [calls EXCEPT !.writes = @ \cup {req.i},
                                              !.log = Append(@, [op |-> "upsert", k |-> req.i])],
                                r)
  /\ UNCHANGED <<viewVars, peer, dash, clock, del, classifierVars, pageVars, cronVars>>

\* DELETE /api/watchlist with body { ticker }: 400 when the ticker is
\* missing or empty, otherwise deleteItem and { success: true }; the client
\* that sent the request takes its own step with it
DELETE(ticker) ==
  /\ req.pc \in {"idle", "responded", "quote", "ai"}
  /\ del.n < MaxDeletes
  /\ IF ticker = <<>>
       THEN /\ del' = [n |-> del.n + 1, ticker |-> ticker, status |-> 400]
            /\ store' = store
       ELSE /\ del' = [n |-> del.n + 1, ticker |-> ticker, status |-> 200]
            /\ store' = deleteItem(store, ticker)
  /\ UNCHANGED <<viewVars, peer, clock, req, calls, classifierVars, pageVars, cronVars>>

\* time passes
Tick ==
  /\ clock + TickHours * MsPerHour <= MaxClockHours * MsPerHour
  /\ clock' = clock + TickHours * MsPerHour
  /\ UNCHANGED <<viewVars, peer, dash, store, req, calls, del, classifierVars, pageVars, cronVars>>

\* BDCDetailPage: getBDCDetails(cik).  bdcOk and holdingsOk tell whether the
\* two queries answered without an error; null is returned ("notfound")
\* when the entity row is missing
RenderDetail(cik, bdcOk, holdingsOk) ==
  /\ detail.pc = "idle"
  /\ detail' =
       IF ~bdcOk \/ ~\E k \in 1..Len(bdcs) : bdcs[k].cik = cik
         THEN [NoDetail EXCEPT !.pc = "notfound", !.cik = cik]
       ELSE IF ~holdingsOk
         THEN [NoDetail EXCEPT !.pc = "failed", !.cik = cik]
       ELSE getBDCDetails(holdings, cik)
  /\ UNCHANGED <<bdcTable, peer, dash, watchVars, classifierVars, pageVars, cronVars>>

\* the second request: POST up to its first await of fetchTickerData
PeerPOST(body) ==
  /\ peer.pc \in {"idle", "responded"}
  /\ IF isRejected(body)
       THEN peer' = [IdlePeer EXCEPT !.pc = "responded", !.status = 400,
                                     !.n = peer.n, !.body = body]
       ELSE /\ peer.n + Len(cleanTickers(body.tickers)) <= MaxPeerSubmitted
            /\ peer' = atAwait(
                         runLoop([IdlePeer EXCEPT !.pc = "loop", !.body = body,
                                                  !.n = peer.n + Len(cleanTickers(body.tickers)),
                                                  !.clean = cleanTickers(body.tickers)],
                                 store, clock),
                         store)
  /\ UNCHANGED <<viewVars, dash, watchVars, classifierVars, pageVars, cronVars>>

\* the second request: fetchTickerData settles
PeerQuoteReturn(yahoo) ==
  /\ peer.pc = "quote"
  /\ LET res == fetchTickerData(yahoo) IN
       IF ~res.ok
         THEN peer' = atAwait(runLoop(pushError(peer, res.error), store, clock), store)
         ELSE peer' = atAwait([peer EXCEPT !.pc = "ai", !.fmpData = Some(res.data),
                                           !.trace[peer.i].fmp = Some(res.data)],
                              store)
  /\ UNCHANGED <<viewVars, dash, watchVars, classifierVars, pageVars, cronVars>>

\* the second request: analyzeWithClaude settles, the item is built,
\* upserted and pushed to results, and the loop goes on
PeerAIReturn(ai) ==
  /\ peer.pc = "ai"
  /\ LET analysis == analysisOrPlaceholder(ai)
         item == buildItem(peer.clean[peer.i], Val(peer.fmpData), analysis, clock)
         saved == upsertItem(loadWatchlist(store, peer.snapshot), item)
     IN  /\ analysis.ok
         /\ store' = saved
         /\ peer' = atAwait(
                      runLoop([peer EXCEPT !.results = Append(@, item),
                                           !.trace[peer.i].out = "result",
                                           !.trace[peer.i].ai = aiOutcome(ai),
                                           !.trace[peer.i].item = Some(item),
                                           !.fmpData = NULL,
                                           !.i = @ + 1],
                              saved, clock),
                      saved)
  /\ UNCHANGED <<viewVars, dash, clock, req, calls, del, classifierVars, pageVars, cronVars>>

\* handleSort(key) and the render that follows
handleSort(key) ==
  /\ Len(bdcTable.clicks) < MaxClicks
  /\ bdcTable' = rendered([nextSort(bdcTable, key) EXCEPT !.clicks = Append(@, key)])
  /\ UNCHANGED <<detail, peer, dash, watchVars, classifierVars, pageVars, cronVars>>

\* the onChange of the sector select, and the render that follows
setFilterSector(value) ==
  /\ bdcTable' = rendered([bdcTable EXCEPT !.filterSector = value])
  /\ UNCHANGED <<detail, peer, dash, watchVars, classifierVars, pageVars, cronVars>>

\* useEffect on mount: GET /api/watchlist answers loadWatchlist(), and
\* setItems(data) when data is an array
DashLoad ==
  /\ dash.pc = "mount"
  /\ dash' = [dash EXCEPT !.pc = "idle", !.items = store]
  /\ UNCHANGED <<viewVars, peer, watchVars, classifierVars, pageVars, cronVars>>

\* handleAnalyze with the text of the input box, up to the first await of
\* the POST it sends; with no ticker in the text it returns at once
handleAnalyze(text) ==
  /\ dash.pc = "idle"
  /\ Len(parseTickers(text)) # 0
  /\ POST([isArray |-> TRUE, tickers |-> parseTickers(text)])
  /\ dash' = [dash EXCEPT !.pc = "analyzing"]

\* handleAnalyze after `await res.json()`
AnalyzeResponse ==
  /\ dash.pc = "analyzing"
  /\ req.pc = "responded"
  /\ dash' = [dash EXCEPT !.pc = "idle",
                          !.items = IF req.status = 200
                                      THEN mergeResults(@, req.results) ELSE @]
  /\ UNCHANGED <<viewVars, peer, watchVars, classifierVars, pageVars, cronVars>>

\* handleRemove(ticker) of a card
handleRemove(ticker) ==
  /\ dash.pc \in {"idle", "analyzing"}
  /\ ticker \in shownTickers(dash)
  /\ DELETE(ticker)
  /\ dash' = [dash EXCEPT !.items = withoutTicker(@, ticker)]

\* handleReanalyze(ticker) of a card up to the answer of its DELETE
handleReanalyze(ticker) ==
  /\ dash.pc = "idle"
  /\ ticker \in shownTickers(dash)
  /\ DELETE(ticker)
  /\ dash' = [dash EXCEPT !.pc = "post", !.reanalyzing = Some(ticker),
                          !.hadItem = ~IsNull(getItem(store, ticker))]

\* handleReanalyze: the POST of { tickers: [ticker] } up to its first await
ReanalyzePost ==
  /\ dash.pc = "post"
  /\ POST([isArray |-> TRUE, tickers |-> << Val(dash.reanalyzing) >>])
  /\ dash' = [dash EXCEPT !.pc = "await"]

\* handleReanalyze after `await res.json()`, and its finally
ReanalyzeResponse ==
  /\ dash.pc = "await"
  /\ req.pc = "responded"
  /\ dash' = [dash EXCEPT !.pc = "idle", !.reanalyzing = NULL, !.hadItem = FALSE,
                          !.items = IF req.status = 200
                                      THEN reanalyzedItems(@, Val(dash.reanalyzing),
                                                           req.results)
                                      ELSE @]
  /\ UNCHANGED <<viewVars, peer, watchVars, classifierVars, pageVars, cronVars>>

\* GET /api/cron/refresh-prices up to its await of the select
CronGET ==
  /\ cron.pc = "idle"
  /\ IF ~getSupabaseAdmin(env)
       THEN cron' = [cron EXCEPT !.pc = "thrown", !.status = 500]
       ELSE cron' = [cron EXCEPT !.pc = "select",
                                 !.log = Append(@, [op |-> "select", i |-> 0,
                                                    at |-> clock])]
  /\ UNCHANGED <<viewVars, peer, dash, env, ingest, clock, store, req, calls, del, classifierVars, pageVars>>

\* the select settles: 500 on an error, otherwise the loop starts
CronSelectReturn(outcome) ==
  /\ cron.pc = "select"
  /\ IF outcome = "error"
       THEN cron' = [cron EXCEPT !.pc = "responded", !.status = 500]
       ELSE cron' = cronLoop([cron EXCEPT !.rows = selectWithTicker(bdcs)], clock)
  /\ UNCHANGED <<viewVars, peer, dash, env, ingest, clock, store, req, calls, del, classifierVars, pageVars>>

\* fetchBDCData settles: the catch records an error; with no figure the
\* entity is skipped; otherwise the update is sent
CronQuoteReturn(result) ==
  /\ cron.pc = "quote"
  /\ LET c == [cron EXCEPT !.log = Append(@, [op |-> "quoteDone", i |-> cron.i,
                                              at |-> clock])]
     IN
       IF result.status = "throw"
         THEN cron' = pushStatus(c, "error", clock)
         ELSE LET yahooData == fetchBDCData(result)
                  fields == updateFieldsOf(yahooData, clock)
                  d == [c EXCEPT !.yahooData = Some(yahooData)]
              IN
              IF keyCount(fields) <= 1
                THEN cron' = pushStatus(d, "skipped", clock)
                ELSE cron' = [d EXCEPT !.pc = "update",
                                       !.updateFields = fields,
                                       !.log = Append(@, [op |-> "update", i |-> cron.i,
                                                          at |-> clock])]
  /\ UNCHANGED <<viewVars, peer, dash, env, ingest, clock, store, req, calls, del, classifierVars, pageVars>>

\* the update settles: an error is recorded, otherwise the row is written
CronUpdateReturn(outcome) ==
  /\ cron.pc = "update"
  /\ LET c == [cron EXCEPT !.updateFields = NoFields,
                           !.log = Append(@, [op |-> "updateDone", i |-> cron.i,
                                              at |-> clock])]
     IN
       IF outcome = "error"
         THEN /\ cron' = pushStatus(c, "error", clock)
              /\ bdcs' = bdcs
         ELSE /\ cron' = pushStatus(c, "updated", clock)
              /\ bdcs' = applyUpdate(bdcs, cron.rows[cron.i].cik, cron.updateFields)
  /\ UNCHANGED <<viewVars, peer, dash, env, ingest, clock, store, req, calls, del, classifierVars,
                 holdings, bdcData, pagePc, avgs>>

\* the timer of delay(500) fires and the loop goes on
CronDelayEnd ==
  /\ cron.pc = "delay"
  /\ clock >= cron.timer
  /\ cron' = cronLoop([cron EXCEPT !.i = @ + 1, !.yahooData = NULL,
                                   !.log = Append(@, [op |-> "delayDone", i |-> cron.i,
                                                      at |-> clock])],
                      clock)
  /\ UNCHANGED <<viewVars, peer, dash, env, ingest, clock, store, req, calls, del, classifierVars, pageVars>>

\* time passes during the refresh job
CronTick ==
  /\ clock + TickMs <= MaxCronMs
  /\ clock' = clock + TickMs
  /\ UNCHANGED <<viewVars, peer, dash, env, ingest, cron, store, req, calls, del, classifierVars, pageVars>>

\* the import script is between two entities
IngestAtRest == ingest.pc \in {"idle", "skipped", "inserted", "failed"}

\* one iteration of importHoldingsFromSEC up to its await of the delete:
\* an entity with no filing or no parsed holding is passed over
IngestSEC(cik, filing, parsed) ==
  /\ IngestAtRest
  /\ ingest.n < MaxIngests
  /\ IF IsNull(filing) \/ Len(parsed) = 0
       THEN ingest' = [ pc |-> "skipped", path |-> "sec", cik |-> cik,
                        rows |-> <<>>, n |-> ingest.n + 1 ]
       ELSE ingest' = [ pc |-> "delete", path |-> "sec", cik |-> cik,
                        rows |-> holdingsToInsert(cik, Val(filing).filingDate, parsed),
                        n |-> ingest.n + 1 ]
  /\ UNCHANGED <<viewVars, peer, dash, env, cron, watchVars, classifierVars, pageVars>>

\* one iteration of importRepresentativeData up to its await of the delete
IngestRepresentative(cik, values) ==
  /\ IngestAtRest
  /\ ingest.n < MaxIngests
  /\ ingest' = [ pc |-> "delete", path |-> "representative", cik |-> cik,
                 rows |-> representativeHoldings(cik, HealthcareSector, values),
                 n |-> ingest.n + 1 ]
  /\ UNCHANGED <<viewVars, peer, dash, env, cron, watchVars, classifierVars, pageVars>>

\* the delete settles; its error is not looked at, the insert is sent
IngestDeleteReturn(outcome) ==
  /\ ingest.pc = "delete"
  /\ holdings' = IF outcome = "error" THEN holdings
                 ELSE deleteHoldingsOf(holdings, ingest.cik)
  /\ ingest' = [ingest EXCEPT !.pc = "insert"]
  /\ UNCHANGED <<viewVars, peer, dash, env, cron, watchVars, classifierVars, bdcs, bdcData, pagePc, avgs>>

\* the insert settles: its error is logged
IngestInsertReturn(outcome) ==
  /\ ingest.pc = "insert"
  /\ IF outcome = "error"
       THEN /\ holdings' = holdings
            /\ ingest' = [ingest EXCEPT !.pc = "failed"]
       ELSE /\ holdings' = insertHoldings(holdings, ingest.rows)
            /\ ingest' = [ingest EXCEPT !.pc = "inserted"]
  /\ UNCHANGED <<viewVars, peer, dash, env, cron, watchVars, classifierVars, bdcs, bdcData, pagePc, avgs>>

\* ---------------------------------------------------------------------
\* Specifications
\* ---------------------------------------------------------------------
Next ==
  \/ \E body \in RequestBodies : POST(body) /\ UNCHANGED dash
  \/ \E yahoo \in YahooResponses : QuoteReturn(yahoo)
  \/ \E ai \in AIResponses : AIReturn(ai)
  \/ \E ticker \in DeleteBodies : DELETE(ticker) /\ UNCHANGED dash
  \/ Tick

Spec == Init /\ [][Next]_vars

NextClassifier == Classify

SpecClassifier == InitClassifier /\ [][NextClassifier]_vars

NextPage ==
  \/ \E failed \in { {}, {1} } : Render(FALSE, failed)
  \/ Render(TRUE, {})

SpecPage == InitPage /\ [][NextPage]_vars

\* the refresh job about to run over some content of table bdcs, with the
\* admin credentials configured or not
InitCron ==
  /\ bdcs \in CronTables(MaxCronBdcs)
  /\ env \in { e \in EnvChoices : e.GEMINI_API_KEY }
  /\ cron = IdleCron /\ ingest = IdleIngest
  /\ holdings = <<>> /\ bdcData = <<>> /\ pagePc = IdlePage /\ avgs = NoAverages
  /\ ClassifierAtRest /\ WatchAtRest /\ ViewAtRest

NextCron ==
  \/ CronGET
  \/ \E outcome \in Outcomes : CronSelectReturn(outcome)
  \/ \E result \in QuoteSummaries : CronQuoteReturn(result)
  \/ \E outcome \in Outcomes : CronUpdateReturn(outcome)
  \/ CronDelayEnd
  \/ CronTick

SpecCron == InitCron /\ [][NextCron]_vars

\* one analyze request or one run of the refresh job, under any
\* configuration of the credentials
InitJobs ==
  /\ bdcs \in CronTables(MaxJobBdcs)
  /\ env \in EnvChoices
  /\ cron = IdleCron /\ ingest = IdleIngest
  /\ holdings = <<>> /\ bdcData = <<>> /\ pagePc = IdlePage /\ avgs = NoAverages
  /\ ClassifierAtRest /\ WatchAtRest /\ ViewAtRest

NextJobs ==
  \/ /\ cron.pc = "idle" /\ req.pc = "idle"
     /\ \E body \in RequestBodies : POST(body) /\ UNCHANGED dash
  \/ \E yahoo \in YahooResponses : QuoteReturn(yahoo)
  \/ \E ai \in AIResponses : AIReturn(ai)
  \/ /\ req.pc = "idle"
     /\ NextCron

SpecJobs == InitJobs /\ [][NextJobs]_vars

\* the import script run over empty tables
NextIngest ==
  \/ \E cik \in IngestCiks, filing \in Filings, parsed \in ParsedHoldings :
        IngestSEC(cik, filing, parsed)
  \/ \E cik \in IngestCiks, values \in RepresentativeValues :
        IngestRepresentative(cik, values)
  \/ \E outcome \in Outcomes : IngestDeleteReturn(outcome)
  \/ \E outcome \in Outcomes : IngestInsertReturn(outcome)

SpecIngest == Init /\ [][NextIngest]_vars

\* the home page and the entity page about to be rendered over holdings
\* with and without a stored sector
InitDetail ==
  /\ \E in \in ResolutionInputs : bdcs = in.bdcs /\ holdings = in.holdings
  /\ bdcData = <<>> /\ pagePc = IdlePage /\ avgs = NoAverages
  /\ ClassifierAtRest /\ WatchAtRest /\ CronAtRest /\ ViewAtRest

NextDetail ==
  \/ \E failed \in { {}, {1} } : Render(FALSE, failed)
  \/ \E cik \in {1, 2}, bdcOk \in BOOLEAN, holdingsOk \in BOOLEAN :
        RenderDetail(cik, bdcOk, holdingsOk)

SpecDetail == InitDetail /\ [][NextDetail]_vars

\* two analyze requests and a DELETE served by one process
InitConc ==
  /\ store \in { <<>>, <<SavedItem(<<"A">>)>> }
  /\ clock = 0 /\ req = IdleReq /\ calls = NoCalls /\ del = NoDelete
  /\ ClassifierAtRest /\ PageAtRest /\ CronAtRest /\ ViewAtRest

NextConc ==
  \/ \E body \in ConcBodies : POST(body) /\ UNCHANGED dash
  \/ \E yahoo \in ConcYahoo : QuoteReturn(yahoo)
  \/ \E ai \in ConcAI : AIReturn(ai)
  \/ \E body \in ConcBodies : PeerPOST(body)
  \/ \E yahoo \in ConcYahoo : PeerQuoteReturn(yahoo)
  \/ \E ai \in ConcAI : PeerAIReturn(ai)
  \/ \E ticker \in ConcTickers : DELETE(ticker) /\ UNCHANGED dash

SpecConc == InitConc /\ [][NextConc]_vars

\* BDCTable rendered for the first time over some data
InitTable ==
  /\ \E d \in TableInputs : bdcTable = rendered([IdleTable EXCEPT !.data = d])
  /\ detail = NoDetail /\ dash = DashAtMount /\ peer = IdlePeer
  /\ ClassifierAtRest /\ PageAtRest /\ WatchAtRest /\ CronAtRest

NextTable ==
  \/ \E key \in SortChoices : handleSort(key)
  \/ \E value \in FilterChoices : setFilterSector(value)

SpecTable == InitTable /\ [][NextTable]_vars

\* one session of the dashboard over a watchlist file saved earlier
InitDash ==
  /\ store \in DashStores
  /\ clock = 0 /\ req = IdleReq /\ calls = NoCalls /\ del = NoDelete
  /\ ClassifierAtRest /\ PageAtRest /\ CronAtRest /\ ViewAtRest

NextDash ==
  \/ DashLoad
  \/ \E text \in DashTexts : handleAnalyze(text)
  \/ AnalyzeResponse
  \/ \E ticker \in { <<"A">>, <<"B">> } : handleRemove(ticker)
  \/ \E ticker \in { <<"A">>, <<"B">> } : handleReanalyze(ticker)
  \/ ReanalyzePost
  \/ ReanalyzeResponse
  \/ \E yahoo \in YahooResponses : QuoteReturn(yahoo)
  \/ \E ai \in AIResponses : AIReturn(ai)
  \/ Tick

SpecDash == InitDash /\ [][NextDash]_vars

\* ---------------------------------------------------------------------
\* Properties of the classifier (SpecClassifier)
\* ---------------------------------------------------------------------
\* the keywords declared for a sector, looked up by the sector's name
KeywordsOf(sector) ==
  LET k == CHOOSE k \in 1..Len(SECTOR_KEYWORDS) : SECTOR_KEYWORDS[k].sector = sector
  IN  { SECTOR_KEYWORDS[k].keywords[j] : j \in 1..Len(SECTOR_KEYWORDS[k].keywords) }

\* the lower-cased, trimmed text contains a keyword of the sector
ContainsKeywordOf(text, sector) ==
  \E kw \in KeywordsOf(sector) : includes(trim(toLowerCase(text)), kw)

IsBlankText(raw) ==
  IsNull(raw) \/ \A i \in 1..Len(Val(raw)) : Val(raw)[i] \in WHITESPACE

MatchesNoKeyword(raw) ==
  ~IsNull(raw) /\ \A s \in SectorSet : ~ContainsKeywordOf(Val(raw), s)

SectorIndex(sector) == CHOOSE i \in 1..Len(SECTORS) : SECTORS[i] = sector

\* C1: classifySector returns one of the 10 taxonomy sectors for every
\* input and never raises; it returns 'Other' when the input is null, empty
\* or whitespace-only, and when no keyword of any sector is a substring of
\* the lower-cased, trimmed text.
C1_ClassifyTotalWithFallback ==
  classified # "pending" =>
    /\ classified \in SectorSet
    /\ (IsBlankText(rawIndustry) \/ MatchesNoKeyword(rawIndustry))
         => classified = "Other"

\* C1 witness: a non-empty, whitespace-only text has been classified as
\* 'Other'.
C1_Witness ==
  /\ classified = "Other"
  /\ ~IsNull(rawIndustry)
  /\ Val(rawIndustry) # <<>>
  /\ IsBlankText(rawIndustry)

\* C2: the result is the earliest-declared sector that has a keyword
\* contained in the text; a sector declared later than a matching sector is
\* never returned.
C2_FirstMatchWins ==
  (classified # "pending" /\ ~IsNull(rawIndustry)) =>
    /\ \A a \in 1..(Len(SECTORS) - 1) :
          ContainsKeywordOf(Val(rawIndustry), SECTORS[a])
            => SectorIndex(classified) <= a
    /\ classified # "Other" => ContainsKeywordOf(Val(rawIndustry), classified)

\* C2 witness: a text with keywords of two sectors, classified as the one
\* declared first.
C2_Witness ==
  /\ classified \notin {"pending", "Other"}
  /\ \E b \in 1..(Len(SECTORS) - 1) :
        /\ b > SectorIndex(classified)
        /\ ContainsKeywordOf(Val(rawIndustry), SECTORS[b])

\* ---------------------------------------------------------------------
\* Properties of the home page (SpecPage)
\* ---------------------------------------------------------------------
Rendered == pagePc.pc = "rendered" /\ ~pagePc.bdcError

\* the holdings of an entity as the tables hold them, no query involved
RowsOf(cik) == { k \in 1..Len(holdings) : holdings[k].bdc_cik = cik }

MaxPeriodOf(cik) ==
  CHOOSE p \in { holdings[k].period_date : k \in RowsOf(cik) } :
    \A k \in RowsOf(cik) : holdings[k].period_date <= p

LatestRowsOf(cik) ==
  { k \in RowsOf(cik) : holdings[k].period_date = MaxPeriodOf(cik) }

\* the fair values of the rows in S added up, a missing value counting 0
RECURSIVE SumFairValue(_)
SumFairValue(S) ==
  IF S = {} THEN 0
  ELSE LET k == CHOOSE k \in S : TRUE IN
       (IF IsNull(holdings[k].fair_value) THEN 0 ELSE Val(holdings[k].fair_value))
         + SumFairValue(S \ {k})

\* the sector of a row: the stored one when non-empty, else the classifier's
SectorOfRow(k) ==
  IF holdings[k].industry_sector \notin { NULL, Some("") }
    THEN Val(holdings[k].industry_sector)
    ELSE classifySector(holdings[k].industry_raw)

HasHoldings(cik) == RowsOf(cik) # {} /\ cik \notin pagePc.failed

\* p = n / d as exact quotients
PctIs(p, n, d) == p.den > 0 /\ d > 0 /\ p.num * d = n * 100 * p.den

AllZero(rec) ==
  \A s \in SectorSet : rec.sector_exposures[s].den > 0
                       /\ rec.sector_exposures[s].num = 0

\* the percentages of a record added up, over the denominator d
RECURSIVE SumPctOver(_, _, _)
SumPctOver(rec, S, d) ==
  IF S = {} THEN 0
  ELSE LET s == CHOOSE s \in S : TRUE IN
       rec.sector_exposures[s].num * (d \div rec.sector_exposures[s].den)
         + SumPctOver(rec, S \ {s}, d)

\* the percentages of a record sum to 100
SumsTo100(rec) ==
  LET d == rec.total_fair_value IN
  /\ \A s \in SectorSet : rec.sector_exposures[s].den > 0
                          /\ d % rec.sector_exposures[s].den = 0
  /\ SumPctOver(rec, SectorSet, d) = 100 * d

\* C3: for an entity with holdings, the 10 sector percentages sum to 100
\* when the total fair value of its latest period is > 0, and are all 0
\* when that total is 0.
C3_PercentagesSumTo100 ==
  Rendered =>
    \A k \in 1..Len(bdcData) :
       HasHoldings(bdcData[k].cik) =>
         /\ bdcData[k].total_fair_value > 0 => SumsTo100(bdcData[k])
         /\ bdcData[k].total_fair_value = 0 => AllZero(bdcData[k])

\* C3 witness: a record whose total is > 0 and is spread over two sectors,
\* one of them found by the classifier.
C3_Witness ==
  /\ Rendered
  /\ \E k \in 1..Len(bdcData) :
        /\ HasHoldings(bdcData[k].cik)
        /\ bdcData[k].total_fair_value > 0
        /\ bdcData[k].sector_exposures["Energy"].num > 0
        /\ bdcData[k].sector_exposures["Healthcare"].num > 0
        /\ \E r \in LatestRowsOf(bdcData[k].cik) : IsNull(holdings[r].industry_sector)

\* C4: the reported period is the maximum period_date of the entity's
\* holdings, and the total and every percentage come from the holdings of
\* that period alone.
C4_LatestPeriodOnly ==
  Rendered =>
    \A k \in 1..Len(bdcData) :
       HasHoldings(bdcData[k].cik) =>
         LET latest == LatestRowsOf(bdcData[k].cik)
             total  == SumFairValue(latest)
         IN  /\ bdcData[k].period_date = Some(MaxPeriodOf(bdcData[k].cik))
             /\ bdcData[k].total_fair_value = total
             /\ total > 0 =>
                  \A s \in SectorSet :
                     PctIs(bdcData[k].sector_exposures[s],
                           SumFairValue({ r \in latest : SectorOfRow(r) = s }),
                           total)

\* C4 witness: Healthcare 100 at 2024-06-30 and Industrials 50 at
\* 2024-09-30 give period 2024-09-30, total 50, Industrials 100 %, every
\* other sector 0 %.
C4_Witness ==
  /\ Rendered
  /\ Len(holdings) = 2
  /\ holdings[1].bdc_cik = 1 /\ holdings[2].bdc_cik = 1
  /\ holdings[1].period_date = 20240630 /\ holdings[1].fair_value = Some(100)
  /\ holdings[1].industry_sector = Some("Healthcare")
  /\ holdings[2].period_date = 20240930 /\ holdings[2].fair_value = Some(50)
  /\ holdings[2].industry_sector = Some("Industrials")
  /\ \E k \in 1..Len(bdcData) :
        /\ bdcData[k].cik = 1
        /\ bdcData[k].period_date = Some(20240930)
        /\ bdcData[k].total_fair_value = 50
        /\ bdcData[k].sector_exposures["Industrials"] = [num |-> 5000, den |-> 50]
        /\ \A s \in SectorSet \ {"Industrials"} :
              bdcData[k].sector_exposures[s].num = 0

\* C5: every composite record has exactly the 10 taxonomy sectors as keys
\* of sector_exposures, each with a defined number; a record of an entity
\* with no holdings or a failed holdings query has period '' and total 0,
\* and a record with total 0 has all 10 percentages equal to 0.
C5_AllSectorsDefined ==
  Rendered =>
    \A k \in 1..Len(bdcData) :
       /\ DOMAIN bdcData[k].sector_exposures = SectorSet
       /\ \A s \in SectorSet : bdcData[k].sector_exposures[s].den > 0
       /\ ~HasHoldings(bdcData[k].cik) =>
            bdcData[k].period_date = NULL /\ bdcData[k].total_fair_value = 0
       /\ bdcData[k].total_fair_value = 0 => AllZero(bdcData[k])

\* C5 witness: the record of an entity that has holdings in the table but
\* whose holdings query failed: period '', total 0, every percentage 0.
C5_Witness ==
  /\ Rendered
  /\ \E k \in 1..Len(bdcData) :
        /\ RowsOf(bdcData[k].cik) # {}
        /\ bdcData[k].cik \in pagePc.failed
        /\ bdcData[k].period_date = NULL
        /\ bdcData[k].total_fair_value = 0
        /\ AllZero(bdcData[k])

Included(cik) == \E k \in 1..Len(bdcData) : bdcData[k].cik = cik

NoMetric(bdc) == \A f \in MetricNames : IsNull(bdc.metrics[f])

EntityTotal(cik) ==
  IF HasHoldings(cik) THEN SumFairValue(LatestRowsOf(cik)) ELSE 0

\* C6: an entity is left out of the result set if and only if its total
\* fair value is 0 and none of its scalar metrics is populated.
C6_ExcludedIffEmpty ==
  Rendered =>
    \A e \in 1..Len(bdcs) :
       ~Included(bdcs[e].cik)
         <=> (EntityTotal(bdcs[e].cik) = 0 /\ NoMetric(bdcs[e]))

NonNullCount(f) ==
  Cardinality({ k \in 1..Len(bdcData) : ~IsNull(bdcData[k].metrics[f]) })

RECURSIVE NonNullSum(_, _)
NonNullSum(f, k) ==
  IF k = 0 THEN 0
  ELSE (IF IsNull(bdcData[k].metrics[f]) THEN 0 ELSE Val(bdcData[k].metrics[f]))
         + NonNullSum(f, k - 1)

\* C7: each displayed average is the sum of the metric over the records
\* whose value is non-null, divided by the number of those records.
C7_AverageOverNonNull ==
  (Rendered /\ bdcData # <<>>) =>
    \A f \in { "dividend_yield", "price_to_nav", "non_accrual_pct" } :
       NonNullCount(f) > 0 =>
         /\ avgs[f].den > 0
         /\ avgs[f].num * NonNullCount(f)
              = NonNullSum(f, Len(bdcData)) * avgs[f].den

\* ---------------------------------------------------------------------
\* Properties of the analyze route (Spec)
\* ---------------------------------------------------------------------
RECURSIVE PushedItems(_)
PushedItems(trace) ==
  IF trace = <<>> THEN <<>>
  ELSE PushedItems(SubSeq(trace, 1, Len(trace) - 1))
         \o (IF trace[Len(trace)].out = "result"
               THEN <<Val(trace[Len(trace)].item)>> ELSE <<>>)

ErrorCount(trace) ==
  Cardinality({ k \in 1..Len(trace) : trace[k].out = "error" })

\* results and errors are what the trace says was pushed
TraceAgrees ==
  /\ req.results = PushedItems(req.trace)
  /\ Len(req.errors) = ErrorCount(req.trace)

\* now - analyzed_at of the item found in the cache at position k
AgeAt(k) == req.trace[k].now - Val(req.trace[k].cached).analyzed_at

IsCached(k) == ~IsNull(req.trace[k].cached)

\* C8: a ticker whose cached item is younger than 24 hours is answered
\* with the cached item unchanged, without a quote call, an AI call or a
\* store write for it; a ticker with no cached item, or one of 24 hours or
\* older, gets a full refresh, which starts with the quote call.
C8_FreshnessGate ==
  /\ TraceAgrees
  /\ \A k \in 1..Len(req.trace) :
        IF IsCached(k) /\ AgeAt(k) < 24 * 60 * 60 * 1000
          THEN /\ req.trace[k].out = "result"
               /\ req.trace[k].item = req.trace[k].cached
               /\ k \notin calls.quote \cup calls.ai \cup calls.writes
          ELSE k \in calls.quote

\* C8 witness: in one request an item 12 hours old was served from the
\* cache and a ticker without an item was refreshed.
C8_Witness ==
  /\ req.pc = "responded"
  /\ \E k \in 1..Len(req.trace) :
        IsCached(k) /\ AgeAt(k) = 12 * 60 * 60 * 1000
        /\ req.trace[k].out = "result"
  /\ \E k \in 1..Len(req.trace) :
        ~IsCached(k) /\ req.trace[k].out = "result" /\ k \in calls.writes

\* the AI call for position k has just failed
AIFailedNow(k) ==
  /\ k <= Len(req.trace) /\ req.trace[k].out = "pending"
  /\ req'.trace[k].ai = "throw"

\* C9: when the quote call succeeded and the AI call fails, the ticker
\* still gets an item: it is pushed to results, not to errors, it is in the
\* store after the step, and it carries the quote's market data and the
\* fixed placeholder risks, strengths and evaluation.
C9_AIFailureDegrades ==
  [][ \A k \in 1..Len(req.clean) :
        AIFailedNow(k) =>
          LET e == req'.trace[k] IN
          /\ e.out = "result"
          /\ req'.errors = req.errors
          /\ \E j \in 1..Len(req'.results) : req'.results[j] = Val(e.item)
          /\ getItem(store', req.clean[k]) = e.item
          /\ Val(e.item).ticker = req.clean[k]
          /\ Val(e.item).price = Val(req.fmpData).price
          /\ Val(e.item).revenue = Val(req.fmpData).revenue
          /\ Val(e.item).risks = <<"AI analysis unavailable - check API key credits">>
          /\ Val(e.item).strengths = <<"AI analysis unavailable - check API key credits">>
          /\ Val(e.item).evaluation = aiUnavailable.evaluation ]_vars

\* C9 witness: an item built after a failed AI call is in results and in
\* the store.
C9_Witness ==
  \E k \in 1..Len(req.trace) :
     /\ req.trace[k].ai = "throw"
     /\ req.trace[k].out = "result"
     /\ getItem(store, req.clean[k]) = req.trace[k].item
     /\ Val(req.trace[k].item).price = 250

\* C10: every item the analyze route returns or persists has exactly 3
\* risks and exactly 3 strengths.
C10_ThreeRisksThreeStrengths ==
  /\ \A j \in 1..Len(req.results) :
        Len(req.results[j].risks) = 3 /\ Len(req.results[j].strengths) = 3
  /\ \A j \in 1..Len(store) :
        Len(store[j].risks) = 3 /\ Len(store[j].strengths) = 3

\* ---------------------------------------------------------------------
\* Properties of the watchlist store (Spec)
\* ---------------------------------------------------------------------
UniqueTickers(items) ==
  \A i, j \in 1..Len(items) : items[i].ticker = items[j].ticker => i = j

Absent(items, ticker) == \A j \in 1..Len(items) : items[j].ticker # ticker

\* the upsertItem call of position k happens in this step
UpsertedNow(k) == k \in calls'.writes /\ k \notin calls.writes

DeletedNow == del'.n = del.n + 1

C13_DeleteByNormalizedTicker ==
  [][ (DeletedNow /\ del'.status = 200)
      => store' = SelectSeq(store,
                    LAMBDA i : i.ticker # trim(toUpperCase(del'.ticker))) ]_vars

\* ---------------------------------------------------------------------
\* Properties of the analyze request as a whole (Spec)
\* ---------------------------------------------------------------------
Served == req.pc # "idle"

\* the body's tickers value is not an array, is empty, or has more than 25
\* entries
BadBatch ==
  \/ ~req.body.isArray
  \/ Len(req.body.tickers) = 0
  \/ Len(req.body.tickers) > 25

\* C14: a request whose tickers value is not an array, is empty or has
\* more than 25 entries is answered 400 with no store read, no external
\* call and no store write made for it; a request of 1 to 25 tickers is
\* not answered 400, its loop reads the store for its tickers and it is
\* answered 200 when the loop is through.
C14_BatchSizeValidation ==
  Served =>
    IF BadBatch
      THEN /\ req.pc = "responded" /\ req.status = 400
           /\ req.trace = <<>> /\ calls = NoCalls
           /\ req.results = <<>> /\ req.errors = <<>>
      ELSE /\ req.status # 400
           /\ req.pc = "responded" =>
                (req.status = 200 /\ Len(req.trace) = Len(req.clean))
           /\ req.clean # <<>> => req.trace # <<>>

\* C14 witness: a request of exactly 25 tickers was processed and answered
\* 200 with a result.
C14_Witness ==
  /\ req.pc = "responded" /\ req.status = 200
  /\ Len(req.body.tickers) = 25
  /\ Len(req.results) = 1

\* the response of an accepted request has been sent
Completed == req.pc = "responded" /\ req.status = 200

\* C15: when an accepted request completes, every ticker submitted in the
\* batch is accounted for by exactly one entry, in results or in errors.
C15_EverySubmittedTickerAccounted ==
  Completed => Len(req.results) + Len(req.errors) = Len(req.body.tickers)

\* the tickers of the entries pushed for the positions of the trace with
\* the given outcome, in order
RECURSIVE TickersWith(_, _, _)
TickersWith(out, trace, clean) ==
  IF trace = <<>> THEN <<>>
  ELSE TickersWith(out, SubSeq(trace, 1, Len(trace) - 1), clean)
         \o (IF trace[Len(trace)].out = out
               THEN <<clean[Len(trace)]>> ELSE <<>>)

\* a raw ticker that survives the normalisation of the route
Survives(t) == Len(trim(t)) > 0 /\ Len(trim(t)) <= 10

RECURSIVE Normalized(_)
Normalized(tickers) ==
  IF tickers = <<>> THEN <<>>
  ELSE (IF Survives(Head(tickers))
          THEN <<trim(toUpperCase(Head(tickers)))>> ELSE <<>>)
         \o Normalized(Tail(tickers))

\* C15 (amended): the tickers that survive normalisation are processed one
\* at a time in request order; a failure of one adds one entry to errors
\* and the next is processed; when the request completes each of them is
\* accounted for by exactly one entry, in results or in errors.
C15_EveryCleanTickerAccounted ==
  (Served /\ ~BadBatch) =>
    /\ req.clean = Normalized(req.body.tickers)
    /\ Len(req.trace) <= Len(req.clean)
    /\ \A k \in 1..Len(req.trace) :
          req.trace[k].out = "pending" => (k = Len(req.trace) /\ k = req.i)
    /\ [j \in 1..Len(req.results) |-> req.results[j].ticker]
         = TickersWith("result", req.trace, req.clean)
    /\ [j \in 1..Len(req.errors) |-> req.errors[j].ticker]
         = TickersWith("error", req.trace, req.clean)
    /\ Completed =>
         /\ Len(req.trace) = Len(req.clean)
         /\ \A k \in 1..Len(req.trace) : req.trace[k].out \in {"result", "error"}

\* C15 witness: the first ticker of a batch failed and the second was still
\* processed and has a result.
C15_Witness ==
  /\ Completed
  /\ Len(req.body.tickers) = 2
  /\ Len(req.errors) = 1 /\ Len(req.results) = 1
  /\ req.trace[1].out = "error" /\ req.trace[2].out = "result"

\* ---------------------------------------------------------------------
\* Properties of the refresh job (SpecCron)
\* ---------------------------------------------------------------------
HasTicker(b) == ~IsNull(b.ticker) /\ Val(b.ticker) # <<>>

JobDone == cron.pc = "responded" /\ cron.status = 200

\* C16: the job records exactly one status entry, updated, skipped or
\* error, for every entity that has a ticker, in iteration order, and its
\* summary has updated + errors + skipped equal to the number of status
\* entries and equal to total.
C16_OneStatusPerEntity ==
  JobDone =>
    LET withTicker == SelectSeq(bdcs, HasTicker)
        summary == Val(cron.summary)
    IN  /\ Len(cron.results) = Len(withTicker)
        /\ \A j \in 1..Len(cron.results) :
              /\ cron.results[j].ticker = Val(withTicker[j].ticker)
              /\ cron.results[j].status \in {"updated", "skipped", "error"}
        /\ summary.updated + summary.errors + summary.skipped = Len(cron.results)
        /\ summary.updated + summary.errors + summary.skipped = summary.total

QuoteStarts == { a \in 1..Len(cron.log) : cron.log[a].op = "quote" }

\* the operations logged strictly between positions a and b
OpsBetween(a, b) == [k \in 1..(b - a - 1) |-> cron.log[a + k].op]

InFlight ==
  Cardinality(QuoteStarts)
    - Cardinality({ a \in 1..Len(cron.log) : cron.log[a].op = "quoteDone" })

\* C17: at most one quote call is in flight; between two successive quote
\* calls the earlier one has finished, the store update, if one was sent,
\* has finished, and then the delay has run for at least 500 ms, whatever
\* the status of the earlier entity.
C17_SequentialRateLimited ==
  /\ InFlight = (IF cron.pc = "quote" THEN 1 ELSE 0)
  /\ \A a, b \in QuoteStarts :
        (a < b /\ \A m \in QuoteStarts : ~(a < m /\ m < b)) =>
          /\ OpsBetween(a, b) \in
               { <<"quoteDone", "delay", "delayDone">>,
                 <<"quoteDone", "update", "updateDone", "delay", "delayDone">> }
          /\ cron.log[b].at - cron.log[b - 2].at >= 500
          /\ \A k \in a..(b - 1) : cron.log[k].at <= cron.log[k + 1].at

\* C17 witness: the first entity ended as error, and the quote call of the
\* second started 500 ms after the first was recorded.
C17_Witness ==
  /\ Cardinality(QuoteStarts) = 2
  /\ cron.results # <<>> /\ cron.results[1].status = "error"
  /\ \E b \in QuoteStarts : b > 2 /\ cron.log[b].at - cron.log[b - 2].at = 500

\* ---------------------------------------------------------------------
\* Properties of one request or one run (SpecJobs)
\* ---------------------------------------------------------------------
\* how many times the analyze request made call op for position k
CallCount(op, k) ==
  Cardinality({ a \in 1..Len(calls.log) : calls.log[a].op = op /\ calls.log[a].k = k })

\* how many times the refresh job made call op for entity i
CronCallCount(op, i) ==
  Cardinality({ a \in 1..Len(cron.log) : cron.log[a].op = op /\ cron.log[a].i = i })

\* C18: in one analyze request the quote call and the AI call are made at
\* most once per ticker occurrence, and in one run of the refresh job the
\* quote call and the update are made at most once per entity; a failed
\* quote call is recorded as an error and the calls move on to later
\* positions only.
C18_NoRetries ==
  /\ \A k \in 1..Len(req.clean) :
        /\ CallCount("quote", k) <= 1
        /\ CallCount("ai", k) <= 1
        /\ CallCount("upsert", k) <= 1
  /\ \A a, b \in 1..Len(calls.log) : a < b => calls.log[a].k <= calls.log[b].k
  /\ Len(req.errors) = ErrorCount(req.trace)
  /\ \A i \in 1..Len(cron.rows) :
        /\ CronCallCount("quote", i) <= 1
        /\ CronCallCount("update", i) <= 1
  /\ \A a, b \in 1..Len(cron.log) : a < b => cron.log[a].i <= cron.log[b].i
  /\ CountStatus(cron.results, "error")
       <= Cardinality({ i \in 1..Len(cron.rows) : CronCallCount("quoteDone", i) = 1 })

\* C18 witness: in a batch of two the quote call of the first ticker failed
\* and the second ticker was then called.
C18_Witness ==
  /\ Len(req.trace) = 2
  /\ req.trace[1].out = "error"
  /\ CallCount("quote", 1) = 1 /\ CallCount("quote", 2) = 1

AdminMissing == ~(env.NEXT_PUBLIC_SUPABASE_URL /\ env.SUPABASE_SERVICE_ROLE_KEY)

\* the refresh job, started without the admin credentials, has failed
\* before any query, quote call or update
AdminFailureIsFatal ==
  (AdminMissing /\ cron.pc # "idle") =>
    /\ cron.pc = "thrown" /\ cron.status = 500
    /\ cron.log = <<>> /\ cron.results = <<>>
    /\ \A k \in 1..Len(bdcs) : IsNull(bdcs[k].updated_at)

\* C19: with a credential absent, the request that needs the collaborator
\* ends in a reported failure, produces and persists no successful result
\* for it, and makes no retry: without the AI key the ticker is an error
\* and nothing is stored for it; without the admin credentials the
\* refresh job fails before any call.
C19_MissingCredentialsFatal ==
  /\ AdminFailureIsFatal
  /\ \A k \in 1..Len(req.trace) :
        req.trace[k].ai = "nokey" =>
          /\ req.trace[k].out = "error"
          /\ k \notin calls.writes
          /\ CallCount("ai", k) <= 1

\* C19 (amended): without the admin credentials the refresh job fails
\* before any query, quote call or update and persists nothing; without
\* the AI key the AI call of a ticker fails once, with no retry, and the
\* analyze route returns and persists the degraded item: the quote's
\* market data with the placeholder analysis, in results and not in errors.
C19_MissingCredentials ==
  /\ AdminFailureIsFatal
  /\ ~env.GEMINI_API_KEY =>
       \A k \in 1..Len(req.trace) :
          /\ req.trace[k].ai \in {"nokey", "none"}
          /\ CallCount("ai", k) <= 1
          /\ req.trace[k].ai = "nokey" =>
               /\ req.trace[k].out = "result"
               /\ k \in calls.writes
               /\ Val(req.trace[k].item).risks = aiUnavailable.risks
               /\ Val(req.trace[k].item).strengths = aiUnavailable.strengths
               /\ Val(req.trace[k].item).evaluation = aiUnavailable.evaluation
               /\ Val(req.trace[k].item).price = Val(req.trace[k].fmp).price
  /\ ~env.GEMINI_API_KEY => req.errors = SelectSeq(req.errors, LAMBDA e : e.error # "AI error")

\* C19 witness: a ticker analyzed without the AI key has the placeholder
\* item in results and in the store.
C19_Witness ==
  /\ ~env.GEMINI_API_KEY
  /\ req.pc = "responded"
  /\ Len(req.trace) = 1 /\ req.trace[1].ai = "nokey"
  /\ Len(store) = 1 /\ store[1].risks = aiUnavailable.risks

\* ---------------------------------------------------------------------
\* Properties of the ingestion (SpecIngest)
\* ---------------------------------------------------------------------
HoldingsOf(cik) == SelectSeq(holdings, LAMBDA h : h.bdc_cik = cik)

\* C20: when ingestion has inserted new holdings for an entity, every
\* holding stored for that entity comes from that ingestion and has its
\* period_date; no holding of an earlier ingestion remains.
C20_IngestionReplacesWholesale ==
  ingest.pc = "inserted" =>
    /\ HoldingsOf(ingest.cik) = ingest.rows
    /\ \A k \in 1..Len(HoldingsOf(ingest.cik)) :
          HoldingsOf(ingest.cik)[k].period_date = ingest.rows[1].period_date

\* ---------------------------------------------------------------------
\* Properties of one ticker refresh (Spec)
\* ---------------------------------------------------------------------
\* the quote call of position k has answered
QuoteSettled(k) == k \in calls.quote /\ ~(req.pc = "quote" /\ req.i = k)

\* the quote call of position k has answered with a failure
QuoteFailed(k) == QuoteSettled(k) /\ IsNull(req.trace[k].fmp)

FailedPositions == { k \in 1..Len(req.trace) : QuoteFailed(k) }

\* the position whose quote call was the j-th to fail
FailedAt(j) ==
  CHOOSE k \in FailedPositions :
     Cardinality({ m \in FailedPositions : m <= k }) = j

\* every AI call of the log comes after the quote call of its position
QuoteBeforeAI ==
  \A b \in 1..Len(calls.log) :
     calls.log[b].op = "ai" =>
       \E a \in 1..(b - 1) :
          calls.log[a] = [op |-> "quote", k |-> calls.log[b].k]

\* C25: the AI call of a ticker is made only after its quote call has
\* succeeded with a valid price; when the quote call fails there is no AI
\* call and no store write for the ticker, the store is left as it was,
\* and one error entry naming the ticker is recorded.
C25_QuoteBeforeAI ==
  /\ [](/\ QuoteBeforeAI
        /\ \A k \in 1..Len(req.trace) :
              /\ k \in calls.ai =>
                   /\ QuoteSettled(k) /\ ~QuoteFailed(k)
                   /\ Val(req.trace[k].fmp).price > 0
              /\ k \in calls.writes => k \in calls.ai
              /\ QuoteFailed(k) =>
                   /\ k \notin calls.ai \cup calls.writes
                   /\ req.trace[k].out = "error"
        /\ Len(req.errors) = Cardinality(FailedPositions)
        /\ \A j \in 1..Len(req.errors) :
              req.errors[j].ticker = req.clean[FailedAt(j)])
  /\ [][ \A k \in 1..Len(req.trace) :
           (req.pc = "quote" /\ req.i = k /\ QuoteFailed(k)') =>
             /\ store' = store
             /\ req'.errors = Append(req.errors, req'.errors[Len(req'.errors)])
             /\ req'.errors[Len(req'.errors)].ticker = req.clean[k] ]_vars

\* C25 witness: a request of two tickers has been answered; the quote call
\* of the first failed, so it has an error entry and neither an AI call nor
\* a write, and the second went through quote, AI call and write.
C25_Witness ==
  /\ req.pc = "responded" /\ Len(req.trace) = 2
  /\ QuoteFailed(1) /\ 1 \notin calls.ai \cup calls.writes
  /\ Len(req.errors) = 1 /\ req.errors[1].ticker = req.clean[1]
  /\ calls.log = << [op |-> "quote", k |-> 1], [op |-> "quote", k |-> 2],
                    [op |-> "ai", k |-> 2], [op |-> "upsert", k |-> 2] >>

\* the item built for position k is the stored item of its ticker
StoredAsBuilt(items, r, k) == getItem(items, r.clean[k]) = r.trace[k].item

\* this step serves a DELETE that removes the ticker of position k
DeletesNow(k) ==
  DeletedNow /\ del'.status = 200 /\ toUpperCase(del'.ticker) = req.clean[k]

\* this step upserts an item the request built for the ticker of position
\* k at another position
ReplacesNow(k) ==
  \E j \in 1..Len(req.clean) :
     j # k /\ UpsertedNow(j) /\ req.clean[j] = req.clean[k]

QuotedColumns == {"price", "dividend_yield", "nav_per_share", "debt_to_equity"}

\* this step writes the update of the entity the loop is at
UpdatedNow ==
  /\ cron.pc = "update" /\ cron'.pc = "delay"
  /\ cron'.results[Len(cron'.results)].status = "updated"

\* the quote call returned a price and a NAV above 0
RatioDefined(y) ==
  ~IsNull(y.price) /\ ~IsNull(y.nav_per_share) /\ Val(y.nav_per_share) > 0

\* v is price / nav rounded to hundredths, all three counted in hundredths
IsRoundedRatio(v, price, nav) ==
  /\ 2 * (v * nav - 100 * price) <= nav
  /\ 2 * (100 * price - v * nav) <= nav

\* row `after` is row `before` with the columns the quote call y gave
FrameOfUpdate(before, after, y) ==
  /\ after.cik = before.cik /\ after.ticker = before.ticker
  /\ ~IsNull(after.updated_at)
  /\ \A f \in QuotedColumns :
        after.metrics[f] = IF IsNull(y[f]) THEN before.metrics[f] ELSE y[f]
  /\ IF RatioDefined(y)
       THEN /\ ~IsNull(after.metrics.price_to_nav)
            /\ IsRoundedRatio(Val(after.metrics.price_to_nav),
                              Val(y.price), Val(y.nav_per_share))
       ELSE after.metrics.price_to_nav = before.metrics.price_to_nav
  /\ \A f \in MetricNames \ (QuotedColumns \cup {"price_to_nav"}) :
        after.metrics[f] = before.metrics[f]

\* C26: the update of one entity sets updated_at, the columns among price,
\* dividend_yield, nav_per_share and debt_to_equity that the quote call
\* returned non-null, and price_to_nav when price and NAV are non-null and
\* NAV > 0; every other column, non_accrual_pct among them, and every other
\* row keep their values, no stored value becomes null, and an entity whose
\* quote call returned no field is skipped without an update.
C26_RefreshUpdateFrame ==
  /\ [][ /\ Len(bdcs') = Len(bdcs)
         /\ \A k \in 1..Len(bdcs) :
               IF UpdatedNow /\ bdcs[k].cik = cron.rows[cron.i].cik
                 THEN FrameOfUpdate(bdcs[k], bdcs'[k], Val(cron.yahooData))
                 ELSE bdcs'[k] = bdcs[k]
         /\ \A k \in 1..Len(bdcs), f \in MetricNames :
               ~IsNull(bdcs[k].metrics[f]) => ~IsNull(bdcs'[k].metrics[f])
         /\ (cron.pc = "quote" /\ ~IsNull(cron'.yahooData)) =>
               IF \A f \in QuotedColumns : IsNull(Val(cron'.yahooData)[f])
                 THEN /\ cron'.pc = "delay"
                      /\ cron'.results[Len(cron'.results)].status = "skipped"
                 ELSE cron'.pc = "update" ]_vars
  /\ [](\A a \in 1..Len(cron.log) :
           cron.log[a].op = "update" =>
             \A r \in 1..Len(cron.results) :
                (cron.results[r].ticker = cron.rows[cron.log[a].i].ticker)
                   => cron.results[r].status # "skipped")

\* C26 witness: the quote call of entity 1 returned a price of 10.00, a
\* yield and a book value of 0 and no debt figure; the row now has the new
\* price and the 0s, and still its stored debt_to_equity, price_to_nav and
\* non_accrual_pct, and the row of entity 2 is as it was.
C26_Witness ==
  /\ Len(bdcs) >= 2 /\ cron.pc = "delay" /\ cron.i = 1
  /\ cron.results = << [ticker |-> CronTickerNames[1], status |-> "updated"] >>
  /\ Val(cron.yahooData) =
       [ price |-> Some(1000), dividend_yield |-> Some(0),
         nav_per_share |-> Some(0), debt_to_equity |-> NULL ]
  /\ bdcs[1].metrics =
       [StoredMetrics EXCEPT !.price = Some(1000), !.dividend_yield = Some(0),
                             !.nav_per_share = Some(0)]
  /\ ~IsNull(bdcs[1].updated_at)
  /\ bdcs[2].metrics = StoredMetrics /\ IsNull(bdcs[2].updated_at)

\* ---------------------------------------------------------------------
\* Properties of the sector resolution (SpecDetail)
\* ---------------------------------------------------------------------
\* the sector of a holding: the stored one when present and non-empty,
\* 'Other' when there is neither a stored sector nor an industry text,
\* else what the classifier gives for the industry text
ClaimedSector(h) ==
  IF ~IsNull(h.industry_sector) /\ Val(h.industry_sector) # ""
    THEN Val(h.industry_sector)
  ELSE IF IsNull(h.industry_raw) \/ Val(h.industry_raw) = <<>> THEN "Other"
  ELSE classifySector(h.industry_raw)

\* the latest rows of an entity that ClaimedSector books under a sector
BookedUnder(cik, sector) ==
  { r \in LatestRowsOf(cik) : ClaimedSector(holdings[r]) = sector }

SummaryEntries(sector) ==
  { e \in 1..Len(detail.sectorSummary) : detail.sectorSummary[e].sector = sector }

\* C24: on the home page and on the entity page every holding of the latest
\* period is booked under its stored sector when that is present and
\* non-empty, under 'Other' when it has neither a stored sector nor an
\* industry text, and else under the classifier's sector; the total counts
\* every such holding, a missing fair value as 0.
C24_SectorResolution ==
  /\ Rendered =>
       \A k \in 1..Len(bdcData) :
          HasHoldings(bdcData[k].cik) =>
            LET total == SumFairValue(LatestRowsOf(bdcData[k].cik)) IN
            /\ bdcData[k].total_fair_value = total
            /\ total > 0 =>
                 \A s \in SectorSet :
                    PctIs(bdcData[k].sector_exposures[s],
                          SumFairValue(BookedUnder(bdcData[k].cik, s)), total)
  /\ (detail.pc = "done" /\ RowsOf(detail.cik) # {}) =>
       /\ detail.totalValue = SumFairValue(LatestRowsOf(detail.cik))
       /\ \A s \in SectorSet :
             LET booked == BookedUnder(detail.cik, s) IN
             IF SumFairValue(booked) > 0
               THEN \E e \in SummaryEntries(s) :
                       /\ SummaryEntries(s) = {e}
                       /\ detail.sectorSummary[e].value = SumFairValue(booked)
                       /\ detail.sectorSummary[e].count = Cardinality(booked)
               ELSE SummaryEntries(s) = {}

\* C24 witness: both pages were rendered over a holding of 50 with no
\* stored sector and an empty industry text and a holding stored as
\* Healthcare whose industry text reads Oil & Gas; the first is booked under
\* 'Other', the second under Healthcare, and the total counts both.
C24_Witness ==
  /\ Rendered
  /\ detail.pc = "done"
  /\ Len(holdings) = 2
  /\ holdings[1].period_date = holdings[2].period_date
  /\ holdings[1].industry_sector = NULL /\ holdings[1].industry_raw = Some(<<>>)
  /\ holdings[1].fair_value = Some(50)
  /\ holdings[2].industry_sector = Some("Healthcare")
  /\ holdings[2].industry_raw = Some(OilAndGas)
  /\ holdings[2].fair_value = Some(100)
  /\ bdcData[1].total_fair_value = 150
  /\ bdcData[1].sector_exposures["Other"] = [num |-> 5000, den |-> 150]
  /\ detail.totalValue = 150
  /\ \E e \in SummaryEntries("Other") : detail.sectorSummary[e].value = 50
  /\ \E e \in SummaryEntries("Healthcare") : detail.sectorSummary[e].value = 100

\* ---------------------------------------------------------------------
\* Properties of the two classifiers (SpecIngest)
\* ---------------------------------------------------------------------
\* C29: the sector the import script stores for a parsed holding is the
\* sector the library's classifySector gives for the same industry_raw.
C29_ScriptClassifierEquivalent ==
  ingest.path = "sec" =>
    \A k \in 1..Len(ingest.rows) :
       ingest.rows[k].industry_sector
         = Some(classifySector(ingest.rows[k].industry_raw))

\* ---------------------------------------------------------------------
\* Properties of the table (SpecTable)
\* ---------------------------------------------------------------------
CiksOf(rows) == { rows[k].cik : k \in 1..Len(rows) }

\* the record's percentage in the sector is a number greater than 0
ExposedTo(bdc, sector) ==
  /\ sector \in DOMAIN bdc.sector_exposures
  /\ bdc.sector_exposures[sector].den > 0
  /\ bdc.sector_exposures[sector].num > 0

\* every row of the table is a record of data, shown once
RowsAreRecords ==
  /\ \A k \in 1..Len(bdcTable.sortedData) :
        \E d \in 1..Len(bdcTable.data) : bdcTable.data[d] = bdcTable.sortedData[k]
  /\ Cardinality(CiksOf(bdcTable.sortedData)) = Len(bdcTable.sortedData)

\* C22: with the filter 'all' the table shows every record of data; with a
\* sector chosen it shows exactly the records whose percentage in that
\* sector is greater than 0; no step changes data.
C22_SectorExposureFilter ==
  /\ [](/\ RowsAreRecords
        /\ bdcTable.filterSector = "all" =>
             CiksOf(bdcTable.sortedData) = CiksOf(bdcTable.data)
        /\ bdcTable.filterSector # "all" =>
             CiksOf(bdcTable.sortedData)
               = { bdcTable.data[d].cik : d \in
                     { d \in 1..Len(bdcTable.data) :
                         ExposedTo(bdcTable.data[d], bdcTable.filterSector) } })
  /\ [][bdcTable'.data = bdcTable.data]_vars

\* C22 witness: Healthcare is chosen over a record with 50 %, a record with
\* 0 % and a record with no Healthcare key; only the first is shown.
C22_Witness ==
  /\ bdcTable.filterSector = "Healthcare"
  /\ CiksOf(bdcTable.data) = {1, 2, 4}
  /\ CiksOf(bdcTable.sortedData) = {1}

\* the sorted key of a is smaller than that of b
KeyLess(a, b) ==
  LET key == bdcTable.sortKey
      scalar(x) == IF IsNull(x.metrics[key]) THEN 0 ELSE Val(x.metrics[key])
      pct(x) == IF ExposedTo(x, key) THEN x.sector_exposures[key] ELSE ZeroPct
  IN  IF key = "name" THEN stringLess(toLowerCase(a.name), toLowerCase(b.name))
      ELSE IF key = "total_fair_value" THEN a.total_fair_value < b.total_fair_value
      ELSE IF key \in SectorSet THEN pct(a).num * pct(b).den < pct(b).num * pct(a).den
      ELSE scalar(a) < scalar(b)

\* a has to come before b in the selected direction
Precedes(a, b) ==
  IF bdcTable.sortDirection = "asc" THEN KeyLess(a, b) ELSE KeyLess(b, a)

\* the position of a record in data
PlaceInData(r) == CHOOSE d \in 1..Len(bdcTable.data) : bdcTable.data[d] = r

\* the table is a permutation of the filtered records, in order, ties in
\* input order
SortedStable ==
  LET rows == bdcTable.sortedData IN
  /\ RowsAreRecords
  /\ CiksOf(rows) = CiksOf(filterBySector(bdcTable.data, bdcTable.filterSector))
  /\ \A i, j \in 1..Len(rows) :
        i < j => /\ ~Precedes(rows[j], rows[i])
                 /\ ~Precedes(rows[i], rows[j]) =>
                      PlaceInData(rows[i]) < PlaceInData(rows[j])

\* C23: the table starts descending by dividend yield; its rows are always
\* a permutation of the filtered records ordered by the selected key in the
\* selected direction, records with equal keys in input order; selecting
\* the current key flips the direction, selecting another key sets that key
\* with direction descending.
C23_StableSortAndToggle ==
  /\ bdcTable.sortKey = "dividend_yield" /\ bdcTable.sortDirection = "desc"
  /\ []SortedStable
  /\ [][ Len(bdcTable'.clicks) = Len(bdcTable.clicks) + 1 =>
           LET key == bdcTable'.clicks[Len(bdcTable'.clicks)] IN
           IF key = bdcTable.sortKey
             THEN /\ bdcTable'.sortKey = key
                  /\ bdcTable'.sortDirection # bdcTable.sortDirection
             ELSE /\ bdcTable'.sortKey = key
                  /\ bdcTable'.sortDirection = "desc"
       ]_vars

\* C23 witness: dividend yield was selected again and the table is
\* ascending over records with yields 0, 10 and null: the two records whose
\* key is 0 come first in input order, "Blue" before "ARES".
C23_Witness ==
  /\ bdcTable.clicks = <<"dividend_yield">>
  /\ bdcTable.sortKey = "dividend_yield" /\ bdcTable.sortDirection = "asc"
  /\ Len(bdcTable.data) = 3
  /\ bdcTable.data[1].cik = 3 /\ bdcTable.data[2].cik = 1 /\ bdcTable.data[3].cik = 2
  /\ Len(bdcTable.sortedData) = 3
  /\ bdcTable.sortedData[1].cik = 3 /\ bdcTable.sortedData[2].cik = 2
  /\ bdcTable.sortedData[3].cik = 1

\* ---------------------------------------------------------------------
\* Properties of the dashboard session (SpecDash)
\* ---------------------------------------------------------------------
StoredTickers(items) == { items[k].ticker : k \in 1..Len(items) }

\* the item stored for a ticker, NULL when there is none
StoredItem(items, t) ==
  IF Absent(items, t) THEN NULL
  ELSE Some(items[CHOOSE k \in 1..Len(items) : items[k].ticker = t])

C30_ReanalyzeKeepsItem ==
  [][ (dash.pc = "await" /\ dash'.pc = "idle" /\ dash.hadItem) =>
         ~Absent(store', Val(dash.reanalyzing)) ]_vars

\* ---------------------------------------------------------------------
\* Properties of concurrent requests (SpecConc)
\* ---------------------------------------------------------------------
\* the second request has just upserted the item of the ticker it is at
PeerUpsertedNow == peer.pc = "ai" /\ peer'.trace[peer.i].out = "result"

\* the tickers whose stored item is not the same after the step
ChangedTickers ==
  { t \in StoredTickers(store) \cup StoredTickers(store') :
      StoredItem(store', t) # StoredItem(store, t) }

====
